---- MODULE Spec2Model ----
(***************************************************************************)
(* A model of the portfolio site's scripts: the overview page (project and *)
(* blog grids, their expand/collapse toggles, the contact form), the       *)
(* project detail page and the blog detail page.                           *)
(*                                                                         *)
(* JavaScript strings are sequences of one-character strings, so that      *)
(* trim, parseInt, String(), the URL parser and URLSearchParams are        *)
(* computed the way the browser computes them.  JavaScript values that are *)
(* compared with === carry their type: [t, x10, s] with t one of "num",    *)
(* "str", "nan", "null"; a number holds ten times its value in x10 (15 is  *)
(* 1.5), a string holds its characters in s.                               *)
(*                                                                         *)
(* Time is counted in units of 50 ms, the greatest common divisor of the   *)
(* delays of the expand/collapse timers.                                   *)
(***************************************************************************)
EXTENDS Integers, Sequences, FiniteSets, TLC

\* ------------------------------------------------------------------------
\* Bounds of the model
\* ------------------------------------------------------------------------
MaxProjects == 5

MaxBlogs == 4

MaxClicks == 2

MaxErrors == 2

MaxDetailRecords == 2

\* ------------------------------------------------------------------------
\* JavaScript strings and values
\* ------------------------------------------------------------------------
DigitChars == <<"0", "1", "2", "3", "4", "5", "6", "7", "8", "9">>

IsDigit(c) == \E d \in 1..10 : DigitChars[d] = c

DigitVal(c) == (CHOOSE d \in 1..10 : DigitChars[d] = c) - 1

IsSpace(c) == c \in {" ", "\t", "\n"}

RECURSIVE Digits(_)
Digits(n) == IF n < 10 THEN <<DigitChars[n + 1]>>
             ELSE Digits(n \div 10) \o <<DigitChars[(n % 10) + 1]>>

Abs(i) == IF i < 0 THEN 0 - i ELSE i

Num(x10) == [t |-> "num", x10 |-> x10, s |-> <<>>]

Str(s) == [t |-> "str", x10 |-> 0, s |-> s]

NaN == [t |-> "nan", x10 |-> 0, s |-> <<>>]

Null == [t |-> "null", x10 |-> 0, s |-> <<>>]

\* Number.prototype.toString for the numbers of the model (one decimal).
NumToString(x10) ==
    (IF x10 < 0 THEN <<"-">> ELSE <<>>)
        \o Digits(Abs(x10) \div 10)
        \o (IF Abs(x10) % 10 = 0 THEN <<>> ELSE <<".", DigitChars[(Abs(x10) % 10) + 1]>>)

\* String(v): what a template literal and Storage.setItem make of a value.
ToJSString(v) ==
    CASE v.t = "num" -> NumToString(v.x10)
      [] v.t = "str" -> v.s
      [] v.t = "nan" -> <<"N", "a", "N">>
      [] OTHER -> <<"n", "u", "l", "l">>

\* a === b
StrictEq(a, b) == a.t # "nan" /\ b.t # "nan" /\ a = b

RECURSIVE TrimStart(_)
TrimStart(s) == IF s # <<>> /\ IsSpace(Head(s)) THEN TrimStart(Tail(s)) ELSE s

RECURSIVE TrimEnd(_)
TrimEnd(s) == IF s # <<>> /\ IsSpace(s[Len(s)]) THEN TrimEnd(SubSeq(s, 1, Len(s) - 1)) ELSE s

\* String.prototype.trim
Trim(s) == TrimEnd(TrimStart(s))

RECURSIVE DigitPrefix(_)
DigitPrefix(s) == IF s # <<>> /\ IsDigit(Head(s)) THEN <<Head(s)>> \o DigitPrefix(Tail(s)) ELSE <<>>

RECURSIVE DigitsValue(_)
DigitsValue(ds) == IF ds = <<>> THEN 0
                   ELSE 10 * DigitsValue(SubSeq(ds, 1, Len(ds) - 1)) + DigitVal(ds[Len(ds)])

\* parseInt(s): leading white space, an optional sign, the longest run of
\* digits; NaN when there is no digit.
ParseInt(s) ==
    LET t0 == TrimStart(s)
        neg == t0 # <<>> /\ Head(t0) = "-"
        t1 == IF t0 # <<>> /\ Head(t0) \in {"-", "+"} THEN Tail(t0) ELSE t0
        ds == DigitPrefix(t1)
    IN IF ds = <<>> THEN NaN
       ELSE Num(10 * (IF neg THEN 0 - DigitsValue(ds) ELSE DigitsValue(ds)))

\* ------------------------------------------------------------------------
\* State
\* ------------------------------------------------------------------------
VARIABLES
    \* overview page (index.html)
    firstGrid,      \* which grid comes first in document order
    projectsFile,   \* the document served for ./data/projects.json
    blogsFile,      \* the document served for ./data/blogs.json
    projectsGrid,   \* children of #projects-grid, in order
    blogsGrid,      \* children of #blogs-grid, in order
    allProjects,    \* window.allProjects
    allBlogs,       \* window.allBlogs
    projFetch,      \* "none" | "pending": the fetch awaited by loadProjects
    blogFetch,      \* "none" | "pending": the fetch awaited by loadBlogs
    timers,         \* pending setTimeout callbacks, in scheduling order
    failsafe,       \* the 3-second failsafe timer of initializeWebsite is pending
    clicks,         \* how many times the user has activated an expand/collapse control
    \* contact form of the overview page
    formValues,     \* the value of each field of #contact-form
    fieldErrors,    \* per field: the texts of its .field-error elements, its class 'error'
    formMessage,    \* the .form-success / .form-error element shown: "none", "success", "error"
    submitButton,   \* the submit button: [disabled, text]
    post,           \* "none" | "pending": the POST awaited by handleContactFormSubmit
    \* navigation and the detail pages
    page,           \* the page shown: "index", "project-detail", "blog-detail"
    storage,        \* sessionStorage: key -> string value, Null for an absent key
    navTimers,      \* pending 300 ms navigation timers of the cards' buttons
    locationSearch, \* window.location.search of the detail page, without its '?'
    detailId,       \* the id the detail page looks for
    detailFetch,    \* "none" | "pending": the fetch awaited by the detail page
    detailAllBlogs, \* allBlogs of the blog detail script
    detailView,     \* what the detail page's main element shows
    loading,        \* the detail page's loading overlay / loading screen is shown
    redirect,       \* the 2 s redirect timer of the project detail page is pending
    relatedSection, \* #related-blogs of the blog detail page: [hidden, grid]
    selected,       \* the id the overview page handed over, Null on a direct visit (history)
    \* navbar of the overview page
    hamburgerActive, \* #hamburger has class 'active'
    navMenuActive,  \* #nav-menu has class 'active'
    bodyOverflow,   \* document.body.style.overflow
    \* a function wrapped by debounce, as the scroll handlers are
    immediate,      \* the immediate argument debounce was called with
    timeout,        \* the closure's variable timeout: undefined, null or a timer id
    pending,        \* the browser's pending timers set by the wrapper: [id, due, args]
    clock,          \* the time, in units of 50 ms
    calls,          \* the calls of the wrapper so far: [time, args, cleared] (history)
    invoked,        \* the invocations of func so far: [time, args, sync] (history)
    lastEvent       \* the handler that ran last and its input (history)

ovVars == <<firstGrid, projectsFile, blogsFile, projectsGrid, blogsGrid, allProjects,
            allBlogs, projFetch, blogFetch, timers, failsafe, clicks>>

formVars == <<formValues, fieldErrors, formMessage, submitButton, post>>

detailVars == <<page, storage, navTimers, locationSearch, detailId, detailFetch, detailAllBlogs,
                detailView, loading, redirect, relatedSection, selected>>

menuVars == <<hamburgerActive, navMenuActive, bodyOverflow>>

debounceVars == <<immediate, timeout, pending, clock, calls, invoked>>

navVars == <<menuVars, debounceVars>>

vars == <<ovVars, formVars, detailVars, navVars, lastEvent>>

\* ------------------------------------------------------------------------
\* Overview page: data
\* ------------------------------------------------------------------------
\* A value that may be undefined: a global not yet assigned, a field a record
\* lacks.
Undefined == [def |-> FALSE, list |-> <<>>]

Defined(list) == [def |-> TRUE, list |-> list]

\* A record of projects.json or blogs.json as far as the pages read it: its
\* id, whether it has the fields createProjectCard/createBlogCard dereference
\* (description/technologies, shortDescription/keywords), and whether it has
\* those only the detail page dereferences (status / fullContent, tags).
\* Every record of the overview's data has the same category; a record with
\* the card's fields has a keywords list, here an empty one.
Rec(id, valid, full) ==
    [id |-> id, valid |-> valid, full |-> full, category |-> Str(<<"c">>),
     keywords |-> IF valid THEN Defined(<<>>) ELSE Undefined]

Record(k) == Rec(Num(10 * k), TRUE, TRUE)

Records(n) == [k \in 1..n |-> Record(k)]

\* The list with its second record lacking the fields a card needs.
BrokenRecords(n) == [k \in 1..n |-> IF k = 2 THEN Rec(Num(20), FALSE, TRUE) ELSE Record(k)]

\* kind: "wrapper" an object holding the list in its field (projects / blogs),
\* "array" the bare list, "object" an object without the field, "null" the
\* JSON null, "garbage" a body that is not JSON.
Doc(kind, list) == [kind |-> kind, list |-> list]

\* The documents projects.json may be: the expected wrapper object around a
\* list of 0..MaxProjects records, and the unexpected shapes.
ProjectFiles ==
    {Doc("wrapper", Records(n)) : n \in 0..MaxProjects}
        \cup {Doc("wrapper", BrokenRecords(2)), Doc("array", Records(2)),
              Doc("object", <<>>), Doc("null", <<>>), Doc("garbage", <<>>)}

\* The documents blogs.json may be: the expected bare array of 0..MaxBlogs
\* records, and the unexpected shapes.
BlogFiles ==
    {Doc("array", Records(n)) : n \in 0..MaxBlogs}
        \cup {Doc("array", BrokenRecords(2)), Doc("wrapper", Records(2)),
              Doc("object", <<>>), Doc("null", <<>>), Doc("garbage", <<>>)}

\* ------------------------------------------------------------------------
\* Overview page: the DOM of the two grids
\* ------------------------------------------------------------------------
Node(id, type, rec, text, count, disabled, onclick) ==
    [id |-> id, type |-> type, rec |-> rec, text |-> text, count |-> count,
     disabled |-> disabled, onclick |-> onclick]

NoRec == Rec(Null, TRUE, TRUE)

LoadingNode(id) == Node(id, "loading", NoRec, "", 0, FALSE, "")

\* The error element of a grid: a message and its 'Try Again' button.
ErrorNode(id, onclick) == Node(id, "error", NoRec, "Try Again", 0, FALSE, onclick)

NoBlogsNode(id) == Node(id, "noblogs", NoRec, "", 0, FALSE, "")

CardNode(id, rec) == Node(id, "card", rec, "", 0, FALSE, "")

ControlNode(id, text, count, onclick) == Node(id, "control", NoRec, text, count, FALSE, onclick)

SampleProject == Rec(Num(10), TRUE, TRUE)

TestProject == Rec(Num(9990), TRUE, TRUE)

Ids(grid) == {grid[i].id : i \in 1..Len(grid)}

TimerRefs(ts) == {ts[i].ref : i \in 1..Len(ts)}

\* A node identity not in use.
NewId(used) == CHOOSE i \in 1..(Cardinality(used) + 1) :
                   i \notin used /\ \A j \in 1..(i - 1) : j \in used

RECURSIVE AppendCards(_, _, _)
\* appendChild(createCard(rec)) for each record of recs, in order.
AppendCards(grid, recs, used) ==
    IF recs = <<>> THEN grid
    ELSE LET id == NewId(used \cup Ids(grid))
         IN AppendCards(Append(grid, CardNode(id, Head(recs))), Tail(recs), used)

\* appendChild of a new element: node with an identity not in use.
AppendNode(grid, used, node) == Append(grid, [node EXCEPT !.id = NewId(used \cup Ids(grid))])

RemoveNode(grid, id) == SelectSeq(grid, LAMBDA nd : nd.id # id)

Cards(grid) == SelectSeq(grid, LAMBDA nd : nd.type = "card")

Controls(grid) == SelectSeq(grid, LAMBDA nd : nd.type = "control")

\* The grids' nodes in document order.
DocNodes == IF firstGrid = "projects" THEN projectsGrid \o blogsGrid
            ELSE blogsGrid \o projectsGrid

\* document.querySelector('.view-more-container') and
\* document.querySelector('.btn-view-more-projects'): the first such element
\* of the whole document; 0 stands for null.  Both grids' controls carry
\* these two classes.
FirstControlId == IF Controls(DocNodes) = <<>> THEN 0 ELSE Controls(DocNodes)[1].id

Min(a, b) == IF a < b THEN a ELSE b

Slice(list, from, to) == SubSeq(list, from + 1, Min(to, Len(list)))

GridNames == {"projects", "blogs"}

\* The two grids as one value: dom.projects and dom.blogs.
Dom == [projects |-> projectsGrid, blogs |-> blogsGrid]

DomIds(dom) == Ids(dom.projects) \cup Ids(dom.blogs)

\* element.remove(): no effect on an element that is in neither grid.
RemoveFromDom(dom, id) == [g \in GridNames |-> RemoveNode(dom[g], id)]

SetNode(grid, id, text, disabled) ==
    [i \in 1..Len(grid) |->
        IF grid[i].id = id THEN [grid[i] EXCEPT !.text = text, !.disabled = disabled]
        ELSE grid[i]]

Timer(kind, by, grid, due, ref) ==
    [kind |-> kind, by |-> by, grid |-> grid, due |-> due, ref |-> ref]

\* ------------------------------------------------------------------------
\* Overview page: rendering
\* ------------------------------------------------------------------------
\* createProjectCard / createBlogCard throw a TypeError on a record without
\* the fields they dereference.
CardThrows(recs) == \E i \in 1..Len(recs) : ~recs[i].valid

InitialProjects_FirstTwo(projects) == Slice(projects, 0, 2)

InitialProjects(projects) == Slice(projects, 0, 3)

HasMoreProjects(projects) == Len(projects) > 3

MoreCount(list) == Len(list) - 3

\* The grid displayProjects leaves when no card throws.
displayProjects(projects, used) ==
    LET cards == AppendCards(<<>>, InitialProjects(projects), used)
    IN IF HasMoreProjects(projects)
       THEN AppendNode(cards, used,
                ControlNode(0, "View More Projects", MoreCount(projects),
                                        "toggleProjectsView"))
       ELSE cards

showProjectsLoading(used) == <<LoadingNode(NewId(used))>>

\* The error element with its 'Try Again' button, then the sample card.
showProjectsError(used) ==
    AppendCards(<<ErrorNode(NewId(used), "loadProjects")>>, <<SampleProject>>, used)

displayBlogs_NoControl(blogs, used) ==
    IF Len(blogs) = 0 THEN <<NoBlogsNode(NewId(used))>>
    ELSE AppendCards(<<>>, Slice(blogs, 0, 3), used)

\* The grid displayBlogs leaves when no card throws.
displayBlogs(blogs, used) ==
    IF Len(blogs) = 0 THEN <<NoBlogsNode(NewId(used))>>
    ELSE LET cards == AppendCards(<<>>, Slice(blogs, 0, 3), used)
         IN IF Len(blogs) > 3
            THEN AppendNode(cards, used,
                     ControlNode(0, "View More Blogs", MoreCount(blogs),
                                             "toggleBlogsView"))
            ELSE cards

showBlogsLoading(used) == <<LoadingNode(NewId(used))>>

showBlogError(used) == <<ErrorNode(NewId(used), "loadBlogs")>>

\* What a fetch can come to: the promise rejects, the response is not OK, or
\* the response is OK and carries the file.
NetOutcomes == {"rejected", "notok", "ok"}

ProjectsShapeOk_AnyList(net, file) == net = "ok" /\ file.kind \in {"wrapper", "array"}

\* loadProjects reaches displayProjects(data.projects).
ProjectsShapeOk(net, file) == net = "ok" /\ file.kind = "wrapper"

BlogsShapeOk_AnyList(net, file) == net = "ok" /\ file.kind \in {"array", "wrapper"}

\* loadBlogs reaches displayBlogs(blogs) with an array.
BlogsShapeOk(net, file) == net = "ok" /\ file.kind = "array"

\* ------------------------------------------------------------------------
\* Overview page: initialization, loads and retries
\* ------------------------------------------------------------------------
\* The state initializeWebsite leaves: both loads have shown their loading
\* state and issued their fetch, and the 3 s failsafe is pending.  The failsafe
\* is not counted in units: it may fire at any time relative to the other
\* timers.  Timers that only add classes, styles or listeners to existing
\* elements (the staggered card animations, the 500 ms enhanced-buttons timer
\* of initializeWebsite) are left out; the animation timers of an expansion
\* are all due before its 'Show Less' timer.
OvStart ==
    /\ projectsGrid = showProjectsLoading({})
    /\ blogsGrid = showBlogsLoading(Ids(showProjectsLoading({})))
    /\ allProjects = Undefined
    /\ allBlogs = Undefined
    /\ projFetch = "pending"
    /\ blogFetch = "pending"
    /\ timers = <<>>
    /\ failsafe = TRUE
    /\ clicks = 0
    /\ lastEvent = <<"initializeWebsite">>

OvInit ==
    /\ firstGrid \in GridNames
    /\ projectsFile \in ProjectFiles
    /\ blogsFile \in BlogFiles
    /\ OvStart

\* loadProjects after its await: the fetch settles with net.
ProjectsFetchSettles(net) ==
    /\ page = "index"
    /\ projFetch = "pending"
    /\ projFetch' = "none"
    /\ LET used == Ids(blogsGrid) \cup TimerRefs(timers)
           shown == ProjectsShapeOk(net, projectsFile)
                        /\ ~CardThrows(InitialProjects(projectsFile.list))
       IN /\ allProjects' = IF ProjectsShapeOk(net, projectsFile)
                            THEN Defined(projectsFile.list) ELSE allProjects
          /\ projectsGrid' = IF shown THEN displayProjects(projectsFile.list, used)
                             ELSE showProjectsError(used)
          /\ lastEvent' = <<"ProjectsFetchSettles", net>>
    /\ UNCHANGED <<firstGrid, projectsFile, blogsFile, blogsGrid, allBlogs, blogFetch,
                   timers, failsafe, clicks>>
    /\ UNCHANGED <<formVars, detailVars, navVars>>

\* loadBlogs after its await.  A body that parses to a non-null value is
\* stored in window.allBlogs before displayBlogs is tried on it.
BlogsFetchSettles(net) ==
    /\ page = "index"
    /\ blogFetch = "pending"
    /\ blogFetch' = "none"
    /\ LET used == Ids(projectsGrid) \cup TimerRefs(timers)
           shown == BlogsShapeOk(net, blogsFile)
                        /\ ~CardThrows(Slice(blogsFile.list, 0, 3))
       IN /\ allBlogs' = IF net = "ok" /\ blogsFile.kind \in {"array", "wrapper", "object"}
                         THEN Defined(IF blogsFile.kind = "array" THEN blogsFile.list ELSE <<>>)
                         ELSE allBlogs
          /\ blogsGrid' = IF shown THEN displayBlogs(blogsFile.list, used)
                          ELSE showBlogError(used)
          /\ lastEvent' = <<"BlogsFetchSettles", net>>
    /\ UNCHANGED <<firstGrid, projectsFile, blogsFile, projectsGrid, allProjects, projFetch,
                   timers, failsafe, clicks>>
    /\ UNCHANGED <<formVars, detailVars, navVars>>

HasTryAgain(grid) == \E i \in 1..Len(grid) : grid[i].type = "error"

\* The user activates the projects grid's 'Try Again': onclick="loadProjects()".
ClickTryAgainProjects ==
    /\ page = "index"
    /\ HasTryAgain(projectsGrid)
    /\ projectsGrid' = showProjectsLoading(Ids(blogsGrid) \cup TimerRefs(timers))
    /\ projFetch' = "pending"
    /\ lastEvent' = <<"ClickTryAgainProjects">>
    /\ UNCHANGED <<firstGrid, projectsFile, blogsFile, blogsGrid, allProjects, allBlogs,
                   blogFetch, timers, failsafe, clicks>>
    /\ UNCHANGED <<formVars, detailVars, navVars>>

\* The user activates the blogs grid's 'Try Again': onclick="loadBlogs()".
ClickTryAgainBlogs ==
    /\ page = "index"
    /\ HasTryAgain(blogsGrid)
    /\ blogsGrid' = showBlogsLoading(Ids(projectsGrid) \cup TimerRefs(timers))
    /\ blogFetch' = "pending"
    /\ lastEvent' = <<"ClickTryAgainBlogs">>
    /\ UNCHANGED <<firstGrid, projectsFile, blogsFile, projectsGrid, allProjects, allBlogs,
                   projFetch, timers, failsafe, clicks>>
    /\ UNCHANGED <<formVars, detailVars, navVars>>

FailsafeEffect_Reloads(grid, fetch, used) ==
    [grid |-> IF Len(grid) = 0 THEN showProjectsLoading(used) ELSE grid,
     fetch |-> IF Len(grid) = 0 THEN "pending" ELSE fetch]

\* The body of the failsafe timer of initializeWebsite, as the projects grid
\* and the state of the projects fetch it leaves: testProjectCard when the grid
\* has no children, nothing otherwise.  It issues no request.
FailsafeEffect(grid, fetch, used) ==
    [grid |-> IF Len(grid) = 0 THEN AppendCards(<<>>, <<TestProject>>, used) ELSE grid,
     fetch |-> fetch]

\* The failsafe timer of initializeWebsite fires.
Failsafe ==
    /\ page = "index"
    /\ failsafe
    /\ failsafe' = FALSE
    /\ LET eff == FailsafeEffect(projectsGrid, projFetch, Ids(blogsGrid) \cup TimerRefs(timers))
       IN /\ projectsGrid' = eff.grid
          /\ projFetch' = eff.fetch
    /\ lastEvent' = <<"Failsafe">>
    /\ UNCHANGED <<firstGrid, projectsFile, blogsFile, blogsGrid, allProjects, allBlogs,
                   blogFetch, timers, clicks>>
    /\ UNCHANGED <<formVars, detailVars, navVars>>

\* ------------------------------------------------------------------------
\* Overview page: expand / collapse
\* ------------------------------------------------------------------------
AllOf(g) == IF g = "projects" THEN allProjects ELSE allBlogs

ExpandName(g) == IF g = "projects" THEN "expandProjectsView" ELSE "expandBlogsView"

ContractName(g) == IF g = "projects" THEN "contractProjectsView" ELSE "contractBlogsView"

ToggleName(g) == IF g = "projects" THEN "toggleProjectsView" ELSE "toggleBlogsView"

ShowLessText(g) == IF g = "projects" THEN "Show Less Projects" ELSE "Show Less Blogs"

ViewMoreText(g) == IF g = "projects" THEN "View More Projects" ELSE "View More Blogs"

\* isExpanded of toggleProjectsView / toggleBlogsView
IsExpanded(grid) == Len(Cards(grid)) > 3

\* The timers contractProjectsView / contractBlogsView schedule: one fade per
\* card beyond the third (50 ms apart), then the swap of the control.
ContractTimers(g, grid, container) ==
    LET cardsToRemove == Slice(Cards(grid), 3, Len(grid))
    IN [i \in 1..Len(cardsToRemove) |->
            Timer("fade", ContractName(g), g, i - 1, cardsToRemove[i].id)]
       \o (IF container # 0
           THEN <<Timer("swap", ContractName(g), g, Len(cardsToRemove) + 4, container)>>
           ELSE <<>>)

\* The user activates an enabled control of grid g: its onclick runs
\* toggleProjectsView / toggleBlogsView, which expands or contracts.  Either
\* takes the document's first control for its own.
ClickControl(g) ==
    /\ page = "index"
    /\ \E i \in 1..Len(Dom[g]) : Dom[g][i].type = "control" /\ ~Dom[g][i].disabled
    /\ AllOf(g).def
    /\ clicks < MaxClicks
    /\ clicks' = clicks + 1
    /\ IF IsExpanded(Dom[g])
       THEN /\ timers' = timers \o ContractTimers(g, Dom[g], FirstControlId)
            /\ lastEvent' = <<"ClickControl", ContractName(g)>>
            /\ UNCHANGED <<projectsGrid, blogsGrid>>
       ELSE /\ projectsGrid' = SetNode(projectsGrid, FirstControlId, "Loading...", TRUE)
            /\ blogsGrid' = SetNode(blogsGrid, FirstControlId, "Loading...", TRUE)
            /\ timers' = Append(timers, Timer("expand", ExpandName(g), g, 10, FirstControlId))
            /\ lastEvent' = <<"ClickControl", ExpandName(g)>>
    /\ UNCHANGED <<firstGrid, projectsFile, blogsFile, allProjects, allBlogs, projFetch,
                   blogFetch, failsafe>>
    /\ UNCHANGED <<formVars, detailVars, navVars>>

\* The records expandProjectsView / expandBlogsView add: those from index 3.
RemainingRecords(list) == Slice(list, 3, Len(list))

\* The grids and the new timers a timer's callback leaves.
TimerEffect(t, dom, used) ==
    CASE t.kind = "expand" ->
            LET without == RemoveFromDom(dom, t.ref)
                remaining == RemainingRecords(AllOf(t.grid).list)
            IN [dom |-> [without EXCEPT ![t.grid] = AppendCards(without[t.grid], remaining,
                                                         used \cup DomIds(without))],
                new |-> <<Timer("showLess", t.by, t.grid, 2 * Len(remaining) + 4, 0)>>]
      [] t.kind = "showLess" ->
            [dom |-> [dom EXCEPT ![t.grid] = AppendNode(dom[t.grid], used \cup DomIds(dom),
                         ControlNode(0, ShowLessText(t.grid), 0, ToggleName(t.grid)))],
             new |-> <<Timer("enhance", t.by, t.grid, 2, 0)>>]
      [] t.kind = "fade" ->
            [dom |-> dom, new |-> <<Timer("remove", t.by, t.grid, 8, t.ref)>>]
      [] t.kind = "remove" ->
            [dom |-> RemoveFromDom(dom, t.ref), new |-> <<>>]
      [] t.kind = "swap" ->
            LET without == RemoveFromDom(dom, t.ref)
            IN [dom |-> [without EXCEPT ![t.grid] =
                            AppendNode(without[t.grid], used \cup DomIds(without),
                                ControlNode(0, ViewMoreText(t.grid),
                                                MoreCount(AllOf(t.grid).list), ToggleName(t.grid)))],
                new |-> <<Timer("enhance", t.by, t.grid, 2, 0)>>]
      [] OTHER -> [dom |-> dom, new |-> <<>>]

Due(ts) == {i \in 1..Len(ts) : ts[i].due = 0}

WithoutIndex(ts, i) == SubSeq(ts, 1, i - 1) \o SubSeq(ts, i + 1, Len(ts))

\* The earliest scheduled of the timers that are due runs.
FireTimer ==
    /\ page = "index"
    /\ Due(timers) # {}
    /\ LET i == CHOOSE j \in Due(timers) : \A k \in Due(timers) : j <= k
           rest == WithoutIndex(timers, i)
           eff == TimerEffect(timers[i], Dom, TimerRefs(rest))
       IN /\ projectsGrid' = eff.dom.projects
          /\ blogsGrid' = eff.dom.blogs
          /\ timers' = rest \o eff.new
          /\ lastEvent' = <<"FireTimer", timers[i].kind, timers[i].by>>
    /\ UNCHANGED <<firstGrid, projectsFile, blogsFile, allProjects, allBlogs, projFetch,
                   blogFetch, failsafe, clicks>>
    /\ UNCHANGED <<formVars, detailVars, navVars>>

\* 50 ms pass: possible only when no timer is due.
Tick ==
    /\ page = "index"
    /\ timers # <<>>
    /\ Due(timers) = {}
    /\ timers' = [i \in 1..Len(timers) |-> [timers[i] EXCEPT !.due = @ - 1]]
    /\ lastEvent' = <<"Tick">>
    /\ UNCHANGED <<firstGrid, projectsFile, blogsFile, projectsGrid, blogsGrid, allProjects,
                   allBlogs, projFetch, blogFetch, failsafe, clicks>>
    /\ UNCHANGED <<formVars, detailVars, navVars>>

\* ------------------------------------------------------------------------
\* Overview page: the contact form
\* ------------------------------------------------------------------------
\* requiredFields of validateContactForm, in its order.
RequiredFields == <<"name", "email", "subject", "message">>

FormFields == {RequiredFields[i] : i \in 1..Len(RequiredFields)}

RequiredMessage == "This field is required"

EmailMessage == "Please enter a valid email address"

NoError == ""

\* A piece of a regular expression: a character class, taken once or, with
\* plus, one or more times.  Classes: "plain" is [^\s@], "at" is @, "dot" is \.
Piece(cls, plus) == [cls |-> cls, plus |-> plus]

InClass(cls, c) ==
    CASE cls = "plain" -> ~IsSpace(c) /\ c # "@"
      [] cls = "at" -> c = "@"
      [] cls = "dot" -> c = "."

\* The pattern's states after one more character c.  State k: the first k
\* pieces have matched, and piece k goes on if it has a plus.
RegexStep(pattern, states, c) ==
    {k \in states : k >= 1 /\ pattern[k].plus /\ InClass(pattern[k].cls, c)}
        \cup {k + 1 : k \in {j \in states : j < Len(pattern) /\ InClass(pattern[j + 1].cls, c)}}

RECURSIVE RegexRun(_, _, _)
RegexRun(pattern, states, s) ==
    IF s = <<>> THEN states
    ELSE RegexRun(pattern, RegexStep(pattern, states, Head(s)), Tail(s))

\* regex.test(s) for a pattern anchored by ^ and $
RegexTest(pattern, s) == Len(pattern) \in RegexRun(pattern, {0}, s)

\* /^[^\s@]+@[^\s@]+\.[^\s@]+$/
emailRegex == <<Piece("plain", TRUE), Piece("at", FALSE), Piece("plain", TRUE),
                Piece("dot", FALSE), Piece("plain", TRUE)>>

isValidEmail_NoDot(email) ==
    RegexTest(<<Piece("plain", TRUE), Piece("at", FALSE), Piece("plain", TRUE)>>, email)

\* isValidEmail(email)
isValidEmail(email) == RegexTest(emailRegex, email)

IsBlank_NoTrim(value) == value = <<>>

\* !formValues[field] || formValues[field].trim() === ''
IsBlank(value) == value = <<>> \/ Trim(value) = <<>>

\* A field without error element and without the class 'error'.  elements:
\* the texts of the elements with data-error-for of the field, in document
\* order; error: the field has the class 'error'.
NoFieldError == [elements |-> <<>>, error |-> FALSE]

\* The message shown at field f, NoError without an error element.
FieldErrorText(errors, f) ==
    IF errors[f].elements = <<>> THEN NoError ELSE errors[f].elements[1]

\* querySelector(`[data-error-for=...]`) and remove(): the first such element
\* goes, if there is one.
RemoveFirst(elements) == IF elements = <<>> THEN <<>> ELSE Tail(elements)

showFieldError_KeepsFirst(errors, fieldName, message) ==
    IF fieldName \in DOMAIN errors /\ errors[fieldName].elements = <<>>
    THEN [errors EXCEPT ![fieldName] = [elements |-> <<message>>, error |-> TRUE]]
    ELSE errors

showFieldError_Appends(errors, fieldName, message) ==
    IF fieldName \in DOMAIN errors
    THEN [errors EXCEPT ![fieldName] =
              [elements |-> Append(@.elements, message), error |-> TRUE]]
    ELSE errors

\* showFieldError: the field's first error element is removed, the field gets
\* the class and a new error element with the message is appended; nothing
\* happens for a name that is no field of the document.
showFieldError(errors, fieldName, message) ==
    IF fieldName \in DOMAIN errors
    THEN [errors EXCEPT ![fieldName] =
              [elements |-> Append(RemoveFirst(@.elements), message), error |-> TRUE]]
    ELSE errors

RECURSIVE ShowRequired(_, _, _)
\* The forEach over requiredFields of validateContactForm, from field i on.
ShowRequired(errors, values, i) ==
    IF i > Len(RequiredFields) THEN errors
    ELSE ShowRequired(IF IsBlank(values[RequiredFields[i]])
                      THEN showFieldError(errors, RequiredFields[i], RequiredMessage)
                      ELSE errors,
                      values, i + 1)

EmailRejected(values) == values["email"] # <<>> /\ ~isValidEmail(values["email"])

\* validateContactForm: the field errors it leaves and its result.
validateContactForm(errors, values) ==
    LET req == ShowRequired(errors, values, 1)
    IN [errors |-> IF EmailRejected(values) THEN showFieldError(req, "email", EmailMessage)
                   ELSE req,
        isValid |-> (\A f \in FormFields : ~IsBlank(values[f])) /\ ~EmailRejected(values)]

showFormLoading_NeverDisables(isLoading) ==
    [disabled |-> FALSE, text |-> IF isLoading THEN "Sending..." ELSE "Send Message"]

\* showFormLoading(isLoading)
showFormLoading(isLoading) ==
    IF isLoading THEN [disabled |-> TRUE, text |-> "Sending..."]
    ELSE [disabled |-> FALSE, text |-> "Send Message"]

\* The values a user can give a field.
FieldValues(f) ==
    CASE f = "email" -> {<<>>, <<" ">>, <<"a">>, <<"a", "@", "a", ".", "a">>}
      [] f = "name" -> {<<>>, <<" ">>, <<"a">>}
      [] OTHER -> {<<>>, <<"a">>}

EmptyForm == [f \in FormFields |-> <<>>]

FormInit ==
    /\ formValues = EmptyForm
    /\ fieldErrors = [f \in FormFields |-> NoFieldError]
    /\ formMessage = "none"
    /\ submitButton = showFormLoading(FALSE)
    /\ post = "none"

\* clearFieldError: the field's first error element and its class go.
clearFieldError(errors, f) ==
    [errors EXCEPT ![f] = [elements |-> RemoveFirst(@.elements), error |-> FALSE]]

\* The user edits field f to v: the 'input' event runs clearFieldError.
Input(f, v) ==
    /\ page = "index"
    /\ v # formValues[f]
    /\ formValues' = [formValues EXCEPT ![f] = v]
    /\ fieldErrors' = clearFieldError(fieldErrors, f)
    /\ lastEvent' = <<"Input", f>>
    /\ UNCHANGED <<formMessage, submitButton, post>>
    /\ UNCHANGED <<ovVars, detailVars, navVars>>

\* validateFormField: every field of the form is required; the email field
\* has type email.
validateFormField(errors, f, value) ==
    LET cleared == clearFieldError(errors, f)
    IN IF Trim(value) = <<>> THEN showFieldError(cleared, f, RequiredMessage)
       ELSE IF f = "email" /\ ~isValidEmail(Trim(value))
            THEN showFieldError(cleared, f, EmailMessage)
            ELSE cleared

\* Field f loses the focus: the 'blur' event runs validateFormField.
Blur(f) ==
    /\ page = "index"
    /\ fieldErrors' = validateFormField(fieldErrors, f, formValues[f])
    /\ lastEvent' = <<"Blur", f>>
    /\ UNCHANGED <<formValues, formMessage, submitButton, post>>
    /\ UNCHANGED <<ovVars, detailVars, navVars>>

\* A submit event: handleContactFormSubmit up to its await.  The browser
\* sends no submit event while the submit button is disabled.
Submit ==
    /\ page = "index"
    /\ ~submitButton.disabled
    /\ LET v == validateContactForm(fieldErrors, formValues)
       IN /\ fieldErrors' = v.errors
          /\ submitButton' = IF v.isValid THEN showFormLoading(TRUE) ELSE submitButton
          /\ post' = IF v.isValid THEN "pending" ELSE post
    /\ lastEvent' = <<"Submit">>
    /\ UNCHANGED <<formValues, formMessage>>
    /\ UNCHANGED <<ovVars, detailVars, navVars>>

\* An entry of the errors list of the service's JSON answer; field "" stands
\* for an entry without a field.
ServiceErrors == [field : {"email", "name", "phone", ""}, message : {"m1", "m2"}]

RECURSIVE SeqsUpTo(_, _)
SeqsUpTo(S, n) == IF n = 0 THEN {<<>>}
                  ELSE SeqsUpTo(S, n - 1) \cup
                       {Append(q, x) : q \in {r \in SeqsUpTo(S, n - 1) : Len(r) = n - 1}, x \in S}

\* What the POST can come to.  kind: "rejected" the promise rejects, "ok" an
\* OK response, "errors" a non-OK response whose JSON body has an errors list,
\* "noerrors" a non-OK response whose JSON body has no errors, "garbage" a
\* non-OK response whose body is not JSON.
Responses ==
    {[kind |-> k, errors |-> <<>>] : k \in {"rejected", "ok", "noerrors", "garbage"}}
        \cup {[kind |-> "errors", errors |-> e] : e \in SeqsUpTo(ServiceErrors, MaxErrors)}

RECURSIVE ShowServiceErrors(_, _)
\* data.errors.forEach(error => { if (error.field) showFieldError(...) })
ShowServiceErrors(errors, list) ==
    IF list = <<>> THEN errors
    ELSE ShowServiceErrors(IF Head(list).field # ""
                           THEN showFieldError(errors, Head(list).field, Head(list).message)
                           ELSE errors,
                           Tail(list))

\* The response takes the catch branch of handleContactFormSubmit: the fetch
\* rejected, response.json() rejected, or the body carried no errors.
ReachesCatch(resp) == resp.kind \in {"rejected", "noerrors", "garbage"}

\* handleContactFormSubmit after its await.
PostSettles(resp) ==
    /\ page = "index"
    /\ post = "pending"
    /\ post' = "none"
    /\ formMessage' = IF resp.kind = "ok" THEN "success"
                      ELSE IF ReachesCatch(resp) THEN "error" ELSE formMessage
    /\ formValues' = IF resp.kind = "ok" THEN EmptyForm ELSE formValues
    /\ fieldErrors' = IF resp.kind = "errors" THEN ShowServiceErrors(fieldErrors, resp.errors)
                      ELSE fieldErrors
    /\ submitButton' = showFormLoading(FALSE)
    /\ lastEvent' = <<"PostSettles", resp>>
    /\ UNCHANGED <<ovVars, detailVars, navVars>>

\* The 8 s / 10 s timer of the message shown removes it.
MessageTimeout ==
    /\ page = "index"
    /\ formMessage # "none"
    /\ formMessage' = "none"
    /\ lastEvent' = <<"MessageTimeout">>
    /\ UNCHANGED <<formValues, fieldErrors, submitButton, post>>
    /\ UNCHANGED <<ovVars, detailVars, navVars>>

FormNext ==
    \/ \E f \in FormFields : \E v \in FieldValues(f) : Input(f, v)
    \/ \E f \in FormFields : Blur(f)
    \/ Submit
    \/ \E resp \in Responses : PostSettles(resp)
    \/ MessageTimeout

\* ------------------------------------------------------------------------
\* Hand-off from the overview page to the detail pages
\* ------------------------------------------------------------------------
StorageInit == [selectedProjectId |-> Null, selectedBlogId |-> Null]

setItem_Raw(store, key, value) == [store EXCEPT ![key] = value]

\* sessionStorage.setItem(key, value): the value is stored as String(value).
setItem(store, key, value) == [store EXCEPT ![key] = Str(ToJSString(value))]

\* The position of the first c in s, 0 when there is none.
IndexOf(s, c) == IF \E i \in 1..Len(s) : s[i] = c
                 THEN CHOOSE i \in 1..Len(s) : s[i] = c /\ \A j \in 1..(i - 1) : s[j] # c
                 ELSE 0

Before(s, c) == IF IndexOf(s, c) = 0 THEN s ELSE SubSeq(s, 1, IndexOf(s, c) - 1)

After(s, c) == IF IndexOf(s, c) = 0 THEN <<>> ELSE SubSeq(s, IndexOf(s, c) + 1, Len(s))

RECURSIVE EncodeQuery(_)
\* The URL parser's percent-encoding of a query, for the characters of the
\* model: a space becomes %20.
EncodeQuery(s) ==
    IF s = <<>> THEN <<>>
    ELSE (IF Head(s) = " " THEN <<"%", "2", "0">> ELSE <<Head(s)>>) \o EncodeQuery(Tail(s))

\* location.search, without its '?', after window.location.href is assigned
\* `blog-detail.html?id=${blogId}`: the URL parser strips trailing white
\* space, drops tabs and newlines, ends the query at the first '#', and
\* percent-encodes it.
BlogDetailSearch(blogId) ==
    LET href == <<"i", "d", "=">> \o ToJSString(blogId)
        stripped == SelectSeq(TrimEnd(href), LAMBDA c : c \notin {"\t", "\n"})
    IN EncodeQuery(Before(stripped, "#"))

\* The bytes percent-decoding restores, for the characters of the model.
PercentCodes == {<<<<"2", "0">>, " ">>, <<<<"2", "3">>, "#">>, <<<<"2", "5">>, "%">>,
                 <<<<"2", "6">>, "&">>, <<<<"2", "B">>, "+">>, <<<<"3", "D">>, "=">>}

RECURSIVE PercentDecode(_)
PercentDecode(s) ==
    IF s = <<>> THEN <<>>
    ELSE IF Head(s) = "%" /\ Len(s) >= 3 /\ \E pc \in PercentCodes : pc[1] = <<s[2], s[3]>>
         THEN <<(CHOOSE pc \in PercentCodes : pc[1] = <<s[2], s[3]>>)[2]>>
                  \o PercentDecode(SubSeq(s, 4, Len(s)))
         ELSE <<Head(s)>> \o PercentDecode(Tail(s))

FormDecode_NoPercent(s) == [i \in 1..Len(s) |-> IF s[i] = "+" THEN " " ELSE s[i]]

\* application/x-www-form-urlencoded decoding of a name or a value.
FormDecode(s) == PercentDecode([i \in 1..Len(s) |-> IF s[i] = "+" THEN " " ELSE s[i]])

RECURSIVE SearchParamsGet(_, _)
\* new URLSearchParams(search).get(name): the value of the first name=value
\* piece, split on '&', whose decoded name is name; null when there is none.
SearchParamsGet(search, name) ==
    IF search = <<>> THEN Null
    ELSE LET piece == Before(search, "&")
         IN IF piece # <<>> /\ FormDecode(Before(piece, "=")) = name
            THEN Str(FormDecode(After(piece, "=")))
            ELSE SearchParamsGet(After(search, "&"), name)

\* getURLParameter(param)
getURLParameter(search, param) == SearchParamsGet(search, param)

Falsy_NullOnly(v) == v.t = "null"

\* !v for a value that is null or a string
Falsy(v) == v.t = "null" \/ (v.t = "str" /\ v.s = <<>>)

\* ------------------------------------------------------------------------
\* The detail pages
\* ------------------------------------------------------------------------
\* What the main element of a detail page shows.  kind: "initial" the static
\* markup, "project" / "blog" the record rec, "notfound" the 'Blog Not Found'
\* message, "error" an error message; retry: it has a 'Try Again' button.
View(kind, rec, retry) == [kind |-> kind, rec |-> rec, retry |-> retry]

InitialView == View("initial", NoRec, FALSE)

\* The blog detail script's `let allBlogs = []`.
NoBlogs == Doc("array", <<>>)

\* #related-blogs as a page load leaves it: shown, its grid without cards.
RelatedMarkup == [hidden |-> FALSE, grid |-> <<>>]

\* No detail page has been opened in this visit; sessionStorage is store.
DetailIdleWith(store) ==
    /\ page = "index"
    /\ storage = store
    /\ navTimers = {}
    /\ locationSearch = <<>>
    /\ detailId = Null
    /\ detailFetch = "none"
    /\ detailAllBlogs = NoBlogs
    /\ detailView = InitialView
    /\ loading = FALSE
    /\ redirect = FALSE
    /\ relatedSection = RelatedMarkup
    /\ selected = Null

\* No detail page has been opened.
DetailIdle == DetailIdleWith(StorageInit)

RECURSIVE Find(_, _)
\* list.find(r => r.id === id)
Find(list, id) ==
    IF list = <<>> THEN [found |-> FALSE, rec |-> NoRec]
    ELSE IF StrictEq(Head(list).id, id) THEN [found |-> TRUE, rec |-> Head(list)]
         ELSE Find(Tail(list), id)

\* The page is left: its timers and pending callbacks are gone.
UnloadIndex ==
    /\ projectsGrid' = <<>>
    /\ blogsGrid' = <<>>
    /\ allProjects' = Undefined
    /\ allBlogs' = Undefined
    /\ projFetch' = "none"
    /\ blogFetch' = "none"
    /\ timers' = <<>>
    /\ failsafe' = FALSE
    /\ navTimers' = {}
    /\ UNCHANGED <<firstGrid, projectsFile, blogsFile, clicks>>

\* index.html is loaded: initializeWebsite runs.
LoadIndex ==
    /\ page' = "index"
    /\ projectsGrid' = showProjectsLoading({})
    /\ blogsGrid' = showBlogsLoading(Ids(showProjectsLoading({})))
    /\ allProjects' = Undefined
    /\ allBlogs' = Undefined
    /\ projFetch' = "pending"
    /\ blogFetch' = "pending"
    /\ timers' = <<>>
    /\ failsafe' = TRUE
    /\ navTimers' = {}
    /\ locationSearch' = <<>>
    /\ detailId' = Null
    /\ detailFetch' = "none"
    /\ detailAllBlogs' = NoBlogs
    /\ detailView' = InitialView
    /\ loading' = FALSE
    /\ redirect' = FALSE
    /\ relatedSection' = RelatedMarkup
    /\ selected' = Null
    /\ UNCHANGED <<firstGrid, projectsFile, blogsFile, clicks>>

\* project-detail.html is loaded: initializeProjectDetailPage up to its await,
\* with sessionStorage being store.
initializeProjectDetailPage(store) ==
    LET projectId == store.selectedProjectId
    IN /\ page' = "project-detail"
       /\ locationSearch' = <<>>
       /\ detailAllBlogs' = NoBlogs
       /\ relatedSection' = RelatedMarkup
       /\ IF Falsy(projectId)
          THEN /\ detailView' = View("error", NoRec, FALSE)
               /\ redirect' = TRUE
               /\ detailId' = Null
               /\ detailFetch' = "none"
               /\ loading' = FALSE
          ELSE /\ detailView' = InitialView
               /\ redirect' = FALSE
               /\ detailId' = ParseInt(projectId.s)
               /\ detailFetch' = "pending"
               /\ loading' = TRUE

initializeBlogDetail_KeepsScreen(search) ==
    LET blogId == getURLParameter(search, <<"i", "d">>)
    IN /\ page' = "blog-detail"
       /\ locationSearch' = search
       /\ detailAllBlogs' = NoBlogs
       /\ relatedSection' = RelatedMarkup
       /\ redirect' = FALSE
       /\ detailId' = blogId
       /\ detailView' = IF Falsy(blogId) THEN View("error", NoRec, TRUE) ELSE InitialView
       /\ detailFetch' = IF Falsy(blogId) THEN "none" ELSE "pending"
       /\ loading' = TRUE

\* blog-detail.html is loaded with location.search being search:
\* initializeBlogDetail up to its await.  The loading screen is part of the
\* page's markup; hideLoadingScreen makes it transparent at once.
initializeBlogDetail(search) ==
    LET blogId == getURLParameter(search, <<"i", "d">>)
    IN /\ page' = "blog-detail"
       /\ locationSearch' = search
       /\ detailAllBlogs' = NoBlogs
       /\ relatedSection' = RelatedMarkup
       /\ redirect' = FALSE
       /\ detailId' = blogId
       /\ IF Falsy(blogId)
          THEN /\ detailView' = View("error", NoRec, TRUE)
               /\ detailFetch' = "none"
               /\ loading' = FALSE
          ELSE /\ detailView' = InitialView
               /\ detailFetch' = "pending"
               /\ loading' = TRUE

NavTimer(target, id) == [target |-> target, id |-> id]

\* The user activates the 'View More Details' button of a card of the projects
\* grid: navigateToProjectDetail(project.id) is scheduled in 300 ms.
ClickViewDetails ==
    /\ page = "index"
    /\ \E i \in 1..Len(projectsGrid) :
          /\ projectsGrid[i].type = "card"
          /\ NavTimer("project", projectsGrid[i].rec.id) \notin navTimers
          /\ navTimers' = navTimers \cup {NavTimer("project", projectsGrid[i].rec.id)}
    /\ lastEvent' = <<"ClickViewDetails">>
    /\ UNCHANGED <<page, storage, locationSearch, detailId, detailFetch, detailAllBlogs,
                   detailView, loading, redirect, relatedSection, selected>>
    /\ UNCHANGED <<ovVars, formVars, navVars>>

\* The user activates the 'Read More' button of a card of the blogs grid: navigateToBlogDetail(blog.id) is scheduled in 300 ms.
ClickReadMore ==
    /\ page = "index"
    /\ \E i \in 1..Len(blogsGrid) :
          /\ blogsGrid[i].type = "card"
          /\ NavTimer("blog", blogsGrid[i].rec.id) \notin navTimers
          /\ navTimers' = navTimers \cup {NavTimer("blog", blogsGrid[i].rec.id)}
    /\ lastEvent' = <<"ClickReadMore">>
    /\ UNCHANGED <<page, storage, locationSearch, detailId, detailFetch, detailAllBlogs,
                   detailView, loading, redirect, relatedSection, selected>>
    /\ UNCHANGED <<ovVars, formVars, navVars>>

\* A navigation timer of a project card fires: navigateToProjectDetail, then
\* the detail page loads.
NavigateToProject ==
    /\ page = "index"
    /\ \E t \in navTimers :
          /\ t.target = "project"
          /\ storage' = setItem(storage, "selectedProjectId", t.id)
          /\ selected' = t.id
    /\ UnloadIndex
    /\ initializeProjectDetailPage(storage')
    /\ lastEvent' = <<"NavigateToProject">>
    /\ UNCHANGED <<formVars, navVars>>

\* A navigation timer of a blog card fires: navigateToBlogDetail, then the
\* detail page loads.
NavigateToBlog ==
    /\ page = "index"
    /\ \E t \in navTimers :
          /\ t.target = "blog"
          /\ storage' = setItem(storage, "selectedBlogId", t.id)
          /\ selected' = t.id
    /\ UnloadIndex
    /\ initializeBlogDetail(BlogDetailSearch(selected'))
    /\ lastEvent' = <<"NavigateToBlog">>
    /\ UNCHANGED <<formVars, navVars>>

\* The user opens project-detail.html directly, in the same tab.
OpenProjectDetail ==
    /\ page = "index"
    /\ selected' = Null
    /\ UnloadIndex
    /\ initializeProjectDetailPage(storage)
    /\ lastEvent' = <<"OpenProjectDetail">>
    /\ UNCHANGED <<storage, formVars, navVars>>

\* The query strings of a direct visit to blog-detail.html: none, an empty
\* id, an id.
DirectSearches == {<<>>, <<"i", "d", "=">>, <<"i", "d", "=", "a", "b">>}

\* The user opens blog-detail.html directly.
OpenBlogDetail(search) ==
    /\ page = "index"
    /\ selected' = Null
    /\ UnloadIndex
    /\ initializeBlogDetail(search)
    /\ lastEvent' = <<"OpenBlogDetail">>
    /\ UNCHANGED <<storage, formVars, navVars>>

\* loadProjectDetails after its await: the view it leaves.  data.projects.find
\* throws on a document without a projects list, displayProjectDetails on a
\* record without the fields it dereferences; every exception ends in showError.
loadProjectDetails(net, file, projectId) ==
    LET f == Find(file.list, projectId)
    IN IF net = "ok" /\ file.kind = "wrapper" /\ f.found /\ f.rec.full
       THEN View("project", f.rec, FALSE)
       ELSE View("error", NoRec, FALSE)

\* The fetch of the project detail page settles with net.
ProjectDetailFetchSettles(net) ==
    /\ page = "project-detail"
    /\ detailFetch = "pending"
    /\ detailFetch' = "none"
    /\ detailView' = loadProjectDetails(net, projectsFile, detailId)
    /\ loading' = FALSE
    /\ lastEvent' = <<"ProjectDetailFetchSettles", net>>
    /\ UNCHANGED <<page, storage, navTimers, locationSearch, detailId, detailAllBlogs,
                   redirect, relatedSection, selected>>
    /\ UNCHANGED <<ovVars, formVars, navVars>>

\* loadBlogData after its await: the value of allBlogs it leaves.  The parsed
\* body is assigned whatever its shape; a failed fetch leaves the empty list.
loadBlogData(net, file, all) ==
    IF net = "ok" /\ file.kind # "garbage" THEN file ELSE all

\* findBlogById
findBlogById(all, blogId) == Find(all.list, blogId)

\* blog.keywords.some(keyword => currentBlog.keywords.includes(keyword))
SharesKeyword(blog, currentBlog) ==
    \E i \in 1..Len(blog.keywords.list) :
        \E j \in 1..Len(currentBlog.keywords.list) :
            StrictEq(blog.keywords.list[i], currentBlog.keywords.list[j])

\* The first filter of displayRelatedBlogs: blog.id !== currentBlog.id.
OtherBlogs(list, currentBlog) ==
    LET IsOther(blog) == ~StrictEq(blog.id, currentBlog.id)
    IN SelectSeq(list, IsOther)

relatedBlogs_KeepsCurrent(list, currentBlog) ==
    LET IsRelated(blog) ==
            \/ StrictEq(blog.category, currentBlog.category)
            \/ SharesKeyword(blog, currentBlog)
    IN Slice(SelectSeq(list, IsRelated), 0, 3)

\* const relatedBlogs of displayRelatedBlogs: both filters, then slice(0, 3).
relatedBlogs(list, currentBlog) ==
    LET IsRelated(blog) ==
            \/ StrictEq(blog.category, currentBlog.category)
            \/ SharesKeyword(blog, currentBlog)
    IN Slice(SelectSeq(OtherBlogs(list, currentBlog), IsRelated), 0, 3)

\* displayRelatedBlogs throws: the second filter reads the keywords of a
\* record without any when the categories differ, or a card is made of a
\* record without a shortDescription.
RelatedThrows(list, currentBlog) ==
    \/ \E i \in 1..Len(list) :
           /\ ~StrictEq(list[i].id, currentBlog.id)
           /\ ~StrictEq(list[i].category, currentBlog.category)
           /\ ~list[i].keywords.def
    \/ \E i \in 1..Len(relatedBlogs(list, currentBlog)) :
           ~relatedBlogs(list, currentBlog)[i].valid

\* displayRelatedBlogs(currentBlog): what it makes of #related-blogs.  An
\* exception leaves the section as it is.
displayRelatedBlogs(list, currentBlog, section) ==
    IF RelatedThrows(list, currentBlog) THEN section
    ELSE IF relatedBlogs(list, currentBlog) = <<>>
         THEN [section EXCEPT !.hidden = TRUE]
         ELSE [section EXCEPT !.grid = relatedBlogs(list, currentBlog)]

\* displayBlogContent(blog) returns normally: blog is null or has the fields
\* the template dereferences (tags, keywords).
BlogContentOk(found) == ~found.found \/ (found.rec.full /\ found.rec.keywords.def)

\* initializeBlogDetail after `await loadBlogData()`: the view it leaves.
\* loadBlogData has shown its error message on a failure and returned; findBlogById throws
\* when allBlogs is no array, displayBlogContent on a record without the fields
\* it dereferences, displayRelatedBlogs as said above, and the catch shows the
\* error message; displayBlogContent of null shows 'Blog Not Found'.
BlogDetailView(all, blogId) ==
    IF all.kind # "array" THEN View("error", NoRec, TRUE)
    ELSE IF ~findBlogById(all, blogId).found THEN View("notfound", NoRec, FALSE)
         ELSE IF /\ BlogContentOk(findBlogById(all, blogId))
                 /\ ~RelatedThrows(all.list, findBlogById(all, blogId).rec)
              THEN View("blog", findBlogById(all, blogId).rec, FALSE)
              ELSE View("error", NoRec, TRUE)

\* initializeBlogDetail after `await loadBlogData()`: what it makes of
\* #related-blogs.  displayRelatedBlogs runs when a blog was found and shown.
BlogDetailRelated(all, blogId, section) ==
    IF /\ all.kind = "array"
       /\ findBlogById(all, blogId).found
       /\ BlogContentOk(findBlogById(all, blogId))
    THEN displayRelatedBlogs(all.list, findBlogById(all, blogId).rec, section)
    ELSE section

\* The fetch of the blog detail page settles with net.
BlogDetailFetchSettles(net) ==
    /\ page = "blog-detail"
    /\ detailFetch = "pending"
    /\ detailFetch' = "none"
    /\ detailAllBlogs' = loadBlogData(net, blogsFile, detailAllBlogs)
    /\ detailView' = BlogDetailView(detailAllBlogs', detailId)
    /\ relatedSection' = BlogDetailRelated(detailAllBlogs', detailId, relatedSection)
    /\ loading' = FALSE
    /\ lastEvent' = <<"BlogDetailFetchSettles", net>>
    /\ UNCHANGED <<page, storage, navTimers, locationSearch, detailId, redirect, selected>>
    /\ UNCHANGED <<ovVars, formVars, navVars>>

\* The user activates 'Try Again' of the blog detail page: location.reload().
ClickTryAgainDetail ==
    /\ page = "blog-detail"
    /\ detailView.retry
    /\ initializeBlogDetail(locationSearch)
    /\ lastEvent' = <<"ClickTryAgainDetail">>
    /\ UNCHANGED <<storage, navTimers, selected>>
    /\ UNCHANGED <<ovVars, formVars, navVars>>

\* A popstate event on the project detail page.
PopState ==
    /\ page = "project-detail"
    /\ storage.selectedProjectId # Null
    /\ storage' = [storage EXCEPT !.selectedProjectId = Null]
    /\ lastEvent' = <<"PopState">>
    /\ UNCHANGED <<page, navTimers, locationSearch, detailId, detailFetch, detailAllBlogs,
                   detailView, loading, redirect, relatedSection, selected>>
    /\ UNCHANGED <<ovVars, formVars, navVars>>

\* The 2 s redirect timer of the project detail page fires.
RedirectFires ==
    /\ page = "project-detail"
    /\ redirect
    /\ LoadIndex
    /\ lastEvent' = <<"RedirectFires">>
    /\ UNCHANGED <<storage, formVars, navVars>>

\* ------------------------------------------------------------------------
\* Overview page: debounce
\* ------------------------------------------------------------------------
MaxCalls == 3

MaxTime == 7

\* CONFIG.debounceDelay
debounceDelay == 100

\* The wait of the scroll handlers' wrappers, in units of 50 ms.
DebounceTicks == debounceDelay \div 50

\* The values of the closure's variable timeout.
NoTimeout == [t |-> "undefined", id |-> 0]

NullTimeout == [t |-> "null", id |-> 0]

TimerId(n) == [t |-> "id", id |-> n]

clearTimeout_Keeps(timerSet, handle) == timerSet

\* clearTimeout(handle): nothing happens for undefined, null or the id of a
\* timer that has run.
clearTimeout(timerSet, handle) == {t \in timerSet : ~(handle.t = "id" /\ t.id = handle.id)}

\* debounce(func, wait, imm) has returned its wrapper.
DebounceIdle(imm) ==
    /\ immediate = imm
    /\ timeout = NoTimeout
    /\ pending = {}
    /\ clock = 0
    /\ calls = <<>>
    /\ invoked = <<>>

\* A call of the wrapper; its arguments are the call's serial number.
executedFunction ==
    /\ page = "index"
    /\ Len(calls) < MaxCalls
    /\ LET args == Len(calls) + 1
           callNow == immediate /\ timeout.t # "id"
           kept == clearTimeout(pending, timeout)
       IN /\ pending' = kept \cup {[id |-> args, due |-> clock + DebounceTicks, args |-> args]}
          /\ timeout' = TimerId(args)
          /\ calls' = Append(calls, [time |-> clock, args |-> args, cleared |-> kept # pending])
          /\ invoked' = IF callNow
                        THEN Append(invoked, [time |-> clock, args |-> args, sync |-> TRUE])
                        ELSE invoked
    /\ lastEvent' = <<"executedFunction">>
    /\ UNCHANGED <<immediate, clock>>
    /\ UNCHANGED <<ovVars, formVars, detailVars, menuVars>>

\* A timer of the wrapper runs its callback, no earlier than it is due.
later ==
    /\ page = "index"
    /\ \E t \in pending :
        /\ t.due <= clock
        /\ pending' = pending \ {t}
        /\ timeout' = NullTimeout
        /\ invoked' = IF ~immediate
                      THEN Append(invoked, [time |-> clock, args |-> t.args, sync |-> FALSE])
                      ELSE invoked
    /\ lastEvent' = <<"later">>
    /\ UNCHANGED <<immediate, clock, calls>>
    /\ UNCHANGED <<ovVars, formVars, detailVars, menuVars>>

\* 50 ms pass: possible only when no timer of the wrapper is due.
ClockTick ==
    /\ page = "index"
    /\ clock < MaxTime
    /\ \A t \in pending : t.due > clock
    /\ clock' = clock + 1
    /\ lastEvent' = <<"ClockTick">>
    /\ UNCHANGED <<immediate, timeout, pending, calls, invoked>>
    /\ UNCHANGED <<ovVars, formVars, detailVars, menuVars>>

\* ------------------------------------------------------------------------
\* Overview page: the mobile menu
\* ------------------------------------------------------------------------
\* The page as loaded: neither element has the class and the body has no
\* inline overflow (index.html, which sets them, is not among the sources).
MenuIdle ==
    /\ hamburgerActive = FALSE
    /\ navMenuActive = FALSE
    /\ bodyOverflow = ""

NavIdle == MenuIdle /\ DebounceIdle(FALSE)

toggleMobileMenu_StaleOverflow(menu) ==
    [hamburger |-> ~menu.hamburger,
     navMenu |-> ~menu.navMenu,
     overflow |-> IF menu.navMenu THEN "hidden" ELSE ""]

\* toggleMobileMenu: the menu state it leaves.
toggleMobileMenu(menu) ==
    [hamburger |-> ~menu.hamburger,
     navMenu |-> ~menu.navMenu,
     overflow |-> IF ~menu.navMenu THEN "hidden" ELSE ""]

Menu == [hamburger |-> hamburgerActive, navMenu |-> navMenuActive, overflow |-> bodyOverflow]

ShowMenu(menu) ==
    /\ hamburgerActive' = menu.hamburger
    /\ navMenuActive' = menu.navMenu
    /\ bodyOverflow' = menu.overflow

handleDocumentClick_AnyOutside(menu, isClickInsideNav) ==
    IF ~isClickInsideNav THEN toggleMobileMenu(menu) ELSE menu

\* handleDocumentClick, for a click inside or outside #navbar
handleDocumentClick(menu, isClickInsideNav) ==
    IF ~isClickInsideNav /\ menu.navMenu THEN toggleMobileMenu(menu) ELSE menu

\* The href attribute of the element a click on a nav link can hit: an
\* in-page link, a link to another page, an element without the attribute.
Hrefs == {Str(<<"#", "a">>), Str(<<"a">>), Null}

\* handleNavLinkClick, for the href attribute of event.target
handleNavLinkClick(menu, href) ==
    IF href.t = "str" /\ href.s # <<>> /\ Head(href.s) = "#" /\ menu.navMenu
    THEN toggleMobileMenu(menu) ELSE menu

\* A click on the hamburger, which is inside #navbar or not: its listener,
\* then the document's.  The events
\* of the menu record their input and whether the menu was open (history).
ClickHamburger(insideNav) ==
    /\ page = "index"
    /\ ShowMenu(handleDocumentClick(toggleMobileMenu(Menu), insideNav))
    /\ lastEvent' = <<"ClickHamburger", "hamburger", navMenuActive>>
    /\ UNCHANGED <<ovVars, formVars, detailVars, debounceVars>>

\* A click on a nav link: its listener, then the document's.
ClickNavLink(href, insideNav) ==
    /\ page = "index"
    /\ ShowMenu(handleDocumentClick(handleNavLinkClick(Menu, href), insideNav))
    /\ lastEvent' = <<"ClickNavLink", href, navMenuActive>>
    /\ UNCHANGED <<ovVars, formVars, detailVars, debounceVars>>

\* A click elsewhere, inside or outside #navbar: the document's listener.
ClickDocument(insideNav) ==
    /\ page = "index"
    /\ ShowMenu(handleDocumentClick(Menu, insideNav))
    /\ lastEvent' = <<"ClickDocument", insideNav, navMenuActive>>
    /\ UNCHANGED <<ovVars, formVars, detailVars, debounceVars>>

Keys == {"Escape", "Enter"}

\* The keydown listener of initializeKeyboardNavigation
KeyDown(key) ==
    /\ page = "index"
    /\ ShowMenu(IF key = "Escape" /\ navMenuActive THEN toggleMobileMenu(Menu) ELSE Menu)
    /\ lastEvent' = <<"KeyDown", key, navMenuActive>>
    /\ UNCHANGED <<ovVars, formVars, detailVars, debounceVars>>

MenuNext ==
    \/ \E insideNav \in BOOLEAN : ClickHamburger(insideNav)
    \/ \E href \in Hrefs, insideNav \in BOOLEAN : ClickNavLink(href, insideNav)
    \/ \E insideNav \in BOOLEAN : ClickDocument(insideNav)
    \/ \E key \in Keys : KeyDown(key)

\* ------------------------------------------------------------------------
\* Specifications
\* ------------------------------------------------------------------------
\* The loads of the overview page and their retries.
LoadNext ==
    \/ \E net \in NetOutcomes : ProjectsFetchSettles(net)
    \/ \E net \in NetOutcomes : BlogsFetchSettles(net)
    \/ ClickTryAgainProjects
    \/ ClickTryAgainBlogs
    \/ Failsafe

ToggleNext ==
    \/ \E g \in GridNames : ClickControl(g)
    \/ FireTimer
    \/ Tick

\* The overview page's grids.
Init == OvInit /\ FormInit /\ DetailIdle /\ NavIdle

Next == LoadNext \/ ToggleNext

Spec == Init /\ [][Next]_vars

\* The overview page after both loads have shown one card each and the
\* failsafe has fired.
OvSettled ==
    /\ firstGrid = "projects"
    /\ projectsFile = Doc("wrapper", Records(1))
    /\ blogsFile = Doc("array", Records(1))
    /\ projectsGrid = displayProjects(Records(1), {})
    /\ blogsGrid = displayBlogs(Records(1), Ids(displayProjects(Records(1), {})))
    /\ allProjects = Defined(Records(1))
    /\ allBlogs = Defined(Records(1))
    /\ projFetch = "none"
    /\ blogFetch = "none"
    /\ timers = <<>>
    /\ failsafe = FALSE
    /\ clicks = 0
    /\ lastEvent = <<"Failsafe">>

\* The contact form.
InitForm == OvSettled /\ FormInit /\ DetailIdle /\ NavIdle

SpecForm == InitForm /\ [][FormNext]_vars

\* The contact form with any email address of up to MaxEmailLen characters:
\* a letter, '@', '.' or a space.
MaxEmailLen == 5

EmailChars == {"a", "@", ".", " "}

Emails == SeqsUpTo(EmailChars, MaxEmailLen)

InitEmail ==
    /\ OvSettled
    /\ DetailIdle
    /\ NavIdle
    /\ \E e \in Emails : formValues = [EmptyForm EXCEPT !["email"] = e, !["subject"] = <<"a">>,
                                                        !["message"] = <<"a">>]
    /\ fieldErrors = [f \in FormFields |-> NoFieldError]
    /\ formMessage = "none"
    /\ submitButton = showFormLoading(FALSE)
    /\ post = "none"

NextEmail ==
    \/ \E v \in FieldValues("name") : Input("name", v)
    \/ Blur("email")
    \/ Submit
    \/ \E resp \in {r \in Responses : r.kind \in {"rejected", "ok"}} : PostSettles(resp)
    \/ MessageTimeout

SpecEmail == InitEmail /\ [][NextEmail]_vars

\* The navbar of the overview page: the mobile menu and a debounced handler,
\* wrapped with or without the immediate flag.
InitNav ==
    /\ OvSettled
    /\ FormInit
    /\ DetailIdle
    /\ MenuIdle
    /\ \E imm \in BOOLEAN : DebounceIdle(imm)

NextNav ==
    \/ executedFunction
    \/ later
    \/ ClockTick
    \/ MenuNext

SpecNav == InitNav /\ [][NextNav]_vars

\* The overview page's grids with a user who activates a control only when
\* every timer of the operations before has fired.
InitRoundTrip ==
    /\ firstGrid \in GridNames
    /\ projectsFile \in {Doc("wrapper", Records(n)) : n \in 4..MaxProjects}
    /\ blogsFile \in {Doc("array", Records(1)), Doc("array", Records(4))}
    /\ OvStart
    /\ FormInit
    /\ DetailIdle
    /\ NavIdle

ClickControlWhenIdle(g) == timers = <<>> /\ ClickControl(g)

NextRoundTrip ==
    \/ LoadNext
    \/ \E g \in GridNames : ClickControlWhenIdle(g)
    \/ FireTimer
    \/ Tick

SpecRoundTrip == InitRoundTrip /\ [][NextRoundTrip]_vars

\* The overview page as a whole: every handler and timer that could issue a
\* request, with few documents (a fetch can still fail), form fields that are
\* empty until the user fills them in, and a POST that is rejected or succeeds.
RequestValues(f) == {IF f = "email" THEN <<"a", "@", "a", ".", "a">> ELSE <<"a">>}

InitRequests ==
    /\ OvInit
    /\ firstGrid = "projects"
    /\ projectsFile \in {Doc("wrapper", Records(0)), Doc("wrapper", Records(4))}
    /\ blogsFile = Doc("array", Records(1))
    /\ FormInit
    /\ DetailIdle
    /\ NavIdle

NextRequests ==
    \/ LoadNext
    \/ ToggleNext
    \/ \E f \in FormFields : \E v \in RequestValues(f) : Input(f, v)
    \/ Submit
    \/ \E resp \in {r \in Responses : r.kind \in {"rejected", "ok"}} : PostSettles(resp)
    \/ MessageTimeout

SpecRequests == InitRequests /\ [][NextRequests]_vars

\* The contact form with a user who fills the fields in and a service that
\* answers every request or fails it: a fetch settles, so the continuation of
\* handleContactFormSubmit is not postponed for ever.
NextSubmit ==
    \/ \E f \in FormFields : \E v \in RequestValues(f) : Input(f, v)
    \/ \E f \in FormFields : Blur(f)
    \/ Submit
    \/ \E resp \in Responses : PostSettles(resp)
    \/ MessageTimeout

SpecSubmit ==
    InitForm /\ [][NextSubmit]_vars /\ WF_vars(\E resp \in Responses : PostSettles(resp))

\* The identifiers a projects.json may give its records: whole numbers, a
\* fraction, strings (of digits, of letters, empty).
DetailProjectIds == {Num(10), Num(20), Num(15), Str(<<"1">>), Str(<<"a">>), Str(<<>>)}

\* The identifiers a blogs.json may give its records: a number, strings (of
\* letters, with a space inside or at the end, with one of the characters the
\* URL syntax reserves, empty).
DetailBlogIds == {Num(10), Str(<<"a", "b">>), Str(<<"a", " ", "b">>), Str(<<"a", " ">>),
                  Str(<<"a", "&">>), Str(<<"a", "#">>), Str(<<"a", "+">>), Str(<<>>)}

\* Records with these identifiers, and one without the fields only the detail
\* page dereferences.
DetailRecords(ids) == {Rec(id, TRUE, TRUE) : id \in ids} \cup {Rec(Num(30), TRUE, FALSE)}

\* The lists of 1..MaxDetailRecords of these records.
DetailLists(ids) == SeqsUpTo(DetailRecords(ids), MaxDetailRecords) \ {<<>>}

\* The overview page and the detail pages, with either a projects.json or a
\* blogs.json of records with such identifiers.
InitDetail ==
    /\ firstGrid = "projects"
    /\ \/ /\ projectsFile \in {Doc("wrapper", l) : l \in DetailLists(DetailProjectIds)}
                                  \cup {Doc("array", Records(1))}
          /\ blogsFile = Doc("array", <<>>)
       \/ /\ projectsFile = Doc("wrapper", <<>>)
          /\ blogsFile \in {Doc("array", l) : l \in DetailLists(DetailBlogIds)}
                               \cup {Doc("wrapper", Records(1)), Doc("null", <<>>)}
    /\ OvStart
    /\ FormInit
    /\ DetailIdle
    /\ NavIdle

DetailNext ==
    \/ ClickViewDetails
    \/ ClickReadMore
    \/ NavigateToProject
    \/ NavigateToBlog
    \/ OpenProjectDetail
    \/ \E search \in DirectSearches : OpenBlogDetail(search)
    \/ \E net \in NetOutcomes : ProjectDetailFetchSettles(net)
    \/ \E net \in NetOutcomes : BlogDetailFetchSettles(net)
    \/ ClickTryAgainDetail
    \/ PopState
    \/ RedirectFires

\* The failsafe timer stays pending: it only adds the test card to an empty
\* projects grid.
NextDetail ==
    \/ \E net \in NetOutcomes : ProjectsFetchSettles(net)
    \/ \E net \in NetOutcomes : BlogsFetchSettles(net)
    \/ ClickTryAgainProjects
    \/ ClickTryAgainBlogs
    \/ DetailNext

SpecDetail == InitDetail /\ [][NextDetail]_vars

\* The detail pages with fetches that settle: the continuation of
\* loadProjectDetails or initializeBlogDetail is not postponed for ever.
SpecDetailLive ==
    /\ InitDetail
    /\ [][NextDetail]_vars
    /\ WF_vars(\E net \in NetOutcomes : ProjectDetailFetchSettles(net))
    /\ WF_vars(\E net \in NetOutcomes : BlogDetailFetchSettles(net))

\* The project detail page in a tab that has been on the site before:
\* sessionStorage may hold the id of a record of an earlier projects.json.
StoredIds == {Null} \cup {Str(ToJSString(id)) : id \in DetailProjectIds}

InitReturn ==
    /\ firstGrid = "projects"
    /\ projectsFile \in {Doc("wrapper", l) : l \in DetailLists(DetailProjectIds)}
                            \cup {Doc("array", Records(1))}
    /\ blogsFile = Doc("array", <<>>)
    /\ OvStart
    /\ FormInit
    /\ \E id \in StoredIds : DetailIdleWith([StorageInit EXCEPT !.selectedProjectId = id])
    /\ NavIdle

NextReturn ==
    \/ \E net \in NetOutcomes : ProjectsFetchSettles(net)
    \/ \E net \in NetOutcomes : BlogsFetchSettles(net)
    \/ ClickTryAgainProjects
    \/ ClickTryAgainBlogs
    \/ ClickViewDetails
    \/ NavigateToProject
    \/ OpenProjectDetail
    \/ \E net \in NetOutcomes : ProjectDetailFetchSettles(net)
    \/ PopState
    \/ RedirectFires

SpecReturn == InitReturn /\ [][NextReturn]_vars

\* The blog detail page over a blogs.json of up to MaxRelatedBlogs records
\* with categories and keywords.
MaxRelatedBlogs == 5

\* A record of blogs.json with this category and these keywords (Undefined
\* for a record without the card's fields).
BlogRecord(id, category, keywords) ==
    [Rec(id, keywords.def, TRUE) EXCEPT !.category = category, !.keywords = keywords]

\* The category and keywords a record may have.
BlogKinds ==
    {<<Str(<<"a">>), Defined(<<Str(<<"x">>)>>)>>,
     <<Str(<<"b">>), Defined(<<Str(<<"y">>), Str(<<"x">>)>>)>>,
     <<Str(<<"b">>), Defined(<<Str(<<"y">>)>>)>>,
     <<Str(<<"b">>), Undefined>>}

\* The id of the k-th record: the digit k.
BlogIdOf(k) == Str(<<DigitChars[k + 1]>>)

\* The lists of 0..MaxRelatedBlogs such records, with ids in data order.
RelatedLists ==
    UNION {{[k \in 1..n |-> BlogRecord(BlogIdOf(k), kinds[k][1], kinds[k][2])] :
                kinds \in [1..n -> BlogKinds]} : n \in 0..MaxRelatedBlogs}

\* The query strings of blog-detail.html that name such an id.
RelatedSearches == {<<"i", "d", "=", DigitChars[k + 1]>> : k \in 1..MaxRelatedBlogs}

InitRelated ==
    /\ firstGrid = "projects"
    /\ projectsFile = Doc("wrapper", <<>>)
    /\ blogsFile \in {Doc("array", l) : l \in RelatedLists}
    /\ OvStart
    /\ FormInit
    /\ DetailIdle
    /\ NavIdle

NextRelated ==
    \/ \E search \in RelatedSearches : OpenBlogDetail(search)
    \/ \E net \in NetOutcomes : BlogDetailFetchSettles(net)
    \/ ClickTryAgainDetail

SpecRelated == InitRelated /\ [][NextRelated]_vars

\* ------------------------------------------------------------------------
\* Properties of the overview page's grids (checked under Spec)
\* ------------------------------------------------------------------------
\* The projects load has just shown the list of a well-formed projects.json.
ProjectsShown ==
    /\ lastEvent[1] = "ProjectsFetchSettles"
    /\ lastEvent[2] = "ok"
    /\ projectsFile.kind = "wrapper"
    /\ \A i \in 1..Len(projectsFile.list) : projectsFile.list[i].valid

\* The first k children of grid are the cards of the first k records of list.
FirstCards(grid, list, k) ==
    /\ Len(grid) >= k
    /\ Len(list) >= k
    /\ \A i \in 1..k : grid[i].type = "card" /\ grid[i].rec = list[i]

\* C1: displayProjects on a list of n records leaves exactly the cards of the
\* first min(n,3) records, in data order, followed by a 'View More Projects'
\* control if and only if n > 3, and that control's label counts n-3 more.
C1_DisplayProjects ==
    ProjectsShown =>
        LET n == Len(projectsFile.list)
            k == IF n < 3 THEN n ELSE 3
        IN /\ FirstCards(projectsGrid, projectsFile.list, k)
           /\ Len(Cards(projectsGrid)) = k
           /\ (Controls(projectsGrid) # <<>>) <=> (n > 3)
           /\ Len(projectsGrid) = (IF n > 3 THEN 4 ELSE n)
           /\ n > 3 => /\ projectsGrid[4].type = "control"
                       /\ projectsGrid[4].text = "View More Projects"
                       /\ projectsGrid[4].count = n - 3

\* C1, reached: five records give three cards and a control counting 2 more.
C1_Witness ==
    /\ ProjectsShown
    /\ Len(projectsFile.list) = 5
    /\ Len(Cards(projectsGrid)) = 3
    /\ projectsGrid[4].text = "View More Projects"
    /\ projectsGrid[4].count = 2

\* The last timer of an expansion of the projects grid has just fired and no
\* other timer of expandProjectsView is pending.
ExpansionDone ==
    /\ lastEvent = <<"FireTimer", "enhance", "expandProjectsView">>
    /\ \A i \in 1..Len(timers) : timers[i].by # "expandProjectsView"

\* C2: once every timer of an expansion of the projects grid has fired, the
\* grid holds the cards of all n records in data order followed by exactly one
\* control, labelled 'Show Less Projects'.
C2_ExpandedGrid ==
    ExpansionDone =>
        LET n == Len(allProjects.list)
        IN /\ Len(projectsGrid) = n + 1
           /\ FirstCards(projectsGrid, allProjects.list, n)
           /\ projectsGrid[n + 1].type = "control"
           /\ projectsGrid[n + 1].text = "Show Less Projects"

\* C2, reached: an expansion that ends as described.
C2_Witness ==
    /\ ExpansionDone
    /\ Len(projectsGrid) = Len(allProjects.list) + 1
    /\ FirstCards(projectsGrid, allProjects.list, Len(allProjects.list))
    /\ projectsGrid[Len(projectsGrid)].text = "Show Less Projects"

\* The grid holds an error element with a 'Try Again' button running onclick,
\* and no loading indicator.
ShowsRetry(grid, onclick) ==
    /\ \E i \in 1..Len(grid) :
          grid[i].type = "error" /\ grid[i].text = "Try Again" /\ grid[i].onclick = onclick
    /\ \A i \in 1..Len(grid) : grid[i].type # "loading"

\* The grid holds the loading indicator and nothing else.
ShowsLoading(grid) == Len(grid) = 1 /\ grid[1].type = "loading"

\* C4: when the load of projects.json or blogs.json fails (rejected fetch,
\* non-OK status, unparsable body, unexpected shape), the grid's loading
\* indicator is replaced by an error message with a 'Try Again' button; and
\* activating that button puts the grid back into its loading state with the
\* fetch issued again.
C4_FailedLoadOffersRetry ==
    /\ (lastEvent[1] = "ProjectsFetchSettles"
            /\ (lastEvent[2] # "ok" \/ projectsFile.kind # "wrapper"))
        => ShowsRetry(projectsGrid, "loadProjects")
    /\ (lastEvent[1] = "BlogsFetchSettles"
            /\ (lastEvent[2] # "ok" \/ blogsFile.kind # "array"))
        => ShowsRetry(blogsGrid, "loadBlogs")
    /\ lastEvent[1] = "ClickTryAgainProjects"
        => ShowsLoading(projectsGrid) /\ projFetch = "pending"
    /\ lastEvent[1] = "ClickTryAgainBlogs"
        => ShowsLoading(blogsGrid) /\ blogFetch = "pending"

\* C4, reached: a projects.json of an unexpected shape has been answered with
\* the error message, and 'Try Again' has restarted the load.
C4_Witness ==
    /\ lastEvent[1] = "ClickTryAgainProjects"
    /\ projectsFile.kind = "object"
    /\ ShowsLoading(projectsGrid)
    /\ projFetch = "pending"

\* ------------------------------------------------------------------------
\* Properties of the contact form (checked under SpecForm)
\* ------------------------------------------------------------------------
\* The value is empty or consists of white space only.
EmptyOrSpaces(value) == \A i \in 1..Len(value) : IsSpace(value[i])

SomeRequiredMissing == \E f \in FormFields : EmptyOrSpaces(formValues[f])

\* C3: a submit event while a required field (name, email, subject, message)
\* is empty or white space only leaves an error message at each such field,
\* issues no request, and leaves the submit button out of its loading state.
C3_MissingFieldBlocksSubmit ==
    (lastEvent[1] = "Submit" /\ SomeRequiredMissing) =>
        /\ \A f \in FormFields : EmptyOrSpaces(formValues[f]) => FieldErrorText(fieldErrors, f) # NoError
        /\ post = "none"
        /\ submitButton = [disabled |-> FALSE, text |-> "Send Message"]

\* C3, reached: a submission whose only missing field is a name of one space.
C3_Witness ==
    /\ lastEvent[1] = "Submit"
    /\ formValues["name"] = <<" ">>
    /\ \A f \in FormFields \ {"name"} : ~EmptyOrSpaces(formValues[f])
    /\ isValidEmail(formValues["email"])
    /\ FieldErrorText(fieldErrors, "name") = RequiredMessage
    /\ post = "none"

\* The POST of a validated submission has just been answered with resp.
Answered(kind) == lastEvent[1] = "PostSettles" /\ lastEvent[2].kind = kind

\* C7: every validated submission that does not succeed (rejected fetch, or a
\* non-OK response whatever its body) ends with the form-level error message,
\* which carries the fallback email address, displayed.
C7_FailureShowsFormError ==
    (lastEvent[1] = "PostSettles" /\ lastEvent[2].kind # "ok") => formMessage = "error"

\* C7, reached: a rejected fetch ends with the form-level error message.
C7_Witness == Answered("rejected") /\ formMessage = "error"

\* The last entry of list that names field f, 0 when none does.
LastNaming(list, f) ==
    IF \E i \in 1..Len(list) : list[i].field = f
    THEN CHOOSE i \in 1..Len(list) :
             list[i].field = f /\ \A j \in (i + 1)..Len(list) : list[j].field # f
    ELSE 0

\* A step of handleContactFormSubmit after its await.
AnswerStep == post = "pending" /\ post' = "none"

\* C8 (as stated): on an OK response the success message is shown and the
\* form is reset; on a non-OK response with an errors list, each error naming
\* a field is displayed as that field's error message.
C8_EachErrorDisplayed ==
    /\ Answered("ok") => formMessage = "success" /\ formValues = EmptyForm
    /\ Answered("errors") =>
           \A i \in 1..Len(lastEvent[2].errors) :
               LET e == lastEvent[2].errors[i]
               IN e.field # "" => e.field \in FormFields /\ FieldErrorText(fieldErrors, e.field) = e.message

\* C8 (amended): on an OK response the success message is shown and the form
\* is reset; on a non-OK response with an errors list, each field of the form
\* shows the message of the last error naming it (errors naming no field of the
\* form are dropped, fields no error names keep what they showed), the handler
\* shows no message of its own, and the fields keep their values.
C8_AnswersDistinguished ==
    [][AnswerStep =>
          LET resp == lastEvent'[2]
          IN /\ resp.kind = "ok" => formMessage' = "success" /\ formValues' = EmptyForm
             /\ resp.kind = "errors" =>
                   /\ \A f \in FormFields :
                         FieldErrorText(fieldErrors', f) = IF LastNaming(resp.errors, f) = 0 THEN FieldErrorText(fieldErrors, f)
                                           ELSE resp.errors[LastNaming(resp.errors, f)].message
                   /\ formMessage' = formMessage
                   /\ formValues' = formValues]_vars

\* C8, reached: an errors list naming the email field twice and a field the
\* form does not have; the email field shows the second message.
C8_Witness ==
    /\ Answered("errors")
    /\ lastEvent[2].errors = <<[field |-> "email", message |-> "m1"],
                               [field |-> "email", message |-> "m2"]>>
    /\ FieldErrorText(fieldErrors, "email") = "m2"
    /\ formMessage = "none"
    /\ formValues # EmptyForm

\* ------------------------------------------------------------------------
\* Properties of the overview page's requests (checked under SpecRequests)
\* ------------------------------------------------------------------------
\* C6: nothing is retried automatically.  After page initialization has
\* issued the two data fetches, a data fetch is issued only by the user
\* activating that grid's 'Try Again', and a form POST only by a submit event;
\* no timer (the 3 s failsafe included) and no other handler issues a request.
C6_NoAutomaticRetry ==
    [][/\ (projFetch' = "pending" /\ projFetch # "pending")
              => lastEvent'[1] = "ClickTryAgainProjects"
       /\ (blogFetch' = "pending" /\ blogFetch # "pending")
              => lastEvent'[1] = "ClickTryAgainBlogs"
       /\ (post' = "pending" /\ post # "pending") => lastEvent'[1] = "Submit"
       /\ lastEvent'[1] \in {"Failsafe", "FireTimer", "Tick", "MessageTimeout"}
              => projFetch' = projFetch /\ blogFetch' = blogFetch /\ post' = post]_vars

\* C6, reached: the projects fetch has failed, the failsafe has fired, and no
\* request is pending.
C6_Witness ==
    /\ lastEvent[1] = "Failsafe"
    /\ HasTryAgain(projectsGrid)
    /\ projFetch = "none"
    /\ blogFetch = "none"
    /\ post = "none"

\* ------------------------------------------------------------------------
\* Properties of the hand-off and the detail pages (checked under SpecDetail)
\* ------------------------------------------------------------------------
\* C5: when the fetch of the blog data fails, the blog detail page shows,
\* once initializeBlogDetail has finished, the error message with its
\* 'Try Again' button.
C5_FailedFetchShowsRetry ==
    (lastEvent[1] = "BlogDetailFetchSettles" /\ lastEvent[2] # "ok")
        => detailView.kind = "error" /\ detailView.retry

\* C5, reached: initializeBlogDetail has finished after a rejected fetch.
C5_Witness ==
    /\ lastEvent = <<"BlogDetailFetchSettles", "rejected">>
    /\ page = "blog-detail"
    /\ detailFetch = "none"
    /\ ~loading

\* The records of list whose id is id.
WithId(list, id) == {i \in 1..Len(list) : list[i].id = id}

\* The first record of list whose id is id.
FirstWithId(list, id) == list[CHOOSE i \in WithId(list, id) : \A j \in WithId(list, id) : i <= j]

\* The project detail page has loaded projects.json after a hand-off of the
\* id of one of its records, and every record has the fields the page needs.
ProjectHandedOver ==
    /\ lastEvent = <<"ProjectDetailFetchSettles", "ok">>
    /\ selected # Null
    /\ projectsFile.kind = "wrapper"
    /\ WithId(projectsFile.list, selected) # {}
    /\ \A i \in 1..Len(projectsFile.list) : projectsFile.list[i].full

\* navigateToProjectDetail has just run: the id is stored, as a string, under
\* selectedProjectId and the detail page is open.
ProjectStored ==
    lastEvent[1] = "NavigateToProject" =>
        /\ storage.selectedProjectId = Str(ToJSString(selected))
        /\ page = "project-detail"

\* C9 (as stated): for every record shown on the overview page, whatever its
\* id (numeric or string), its button stores the id under selectedProjectId
\* and opens the detail page, which displays the record with that id.
C9_AnyIdRoundTrip ==
    /\ ProjectStored
    /\ ProjectHandedOver =>
           /\ detailView.kind = "project"
           /\ detailView.rec.id = selected

IsWholeNumber(id) == id.t = "num" /\ id.x10 % 10 = 0

\* C9 (amended): for every record shown on the overview page, its button
\* stores the id, as a string, under selectedProjectId and opens the detail
\* page; when the id is a whole number the page displays the first record of
\* projects.json with that id.
C9_WholeNumberRoundTrip ==
    /\ ProjectStored
    /\ (ProjectHandedOver /\ IsWholeNumber(selected)) =>
           detailView = [kind |-> "project", rec |-> FirstWithId(projectsFile.list, selected),
                         retry |-> FALSE]

\* C9, reached: the record with id 2, second of its list, is displayed.
C9_Witness ==
    /\ ProjectHandedOver
    /\ selected = Num(20)
    /\ Len(projectsFile.list) = 2
    /\ projectsFile.list[2].id = Num(20)
    /\ detailView.kind = "project"
    /\ detailView.rec = projectsFile.list[2]

\* The blog detail page has finished after a hand-off of the id of a record
\* of blogs.json.
BlogHandedOver ==
    /\ lastEvent[1] = "BlogDetailFetchSettles"
    /\ selected # Null
    /\ blogsFile.kind = "array"
    /\ WithId(blogsFile.list, selected) # {}
    /\ \A i \in 1..Len(blogsFile.list) : blogsFile.list[i].full

IsPlainString(id) ==
    /\ id.t = "str"
    /\ id.s # <<>>
    /\ \A i \in 1..Len(id.s) : id.s[i] \notin {"&", "#", "+", "%", "\t", "\n"}
    /\ ~IsSpace(id.s[Len(id.s)])

LocalPart(s) == Before(s, "@")

DomainPart(s) == After(s, "@")

\* No white space; exactly one '@' with a character before it; after the
\* '@' a '.' with a character before it and a character after it.
WellFormedEmail(s) ==
    /\ \A i \in 1..Len(s) : ~IsSpace(s[i])
    /\ Cardinality({i \in 1..Len(s) : s[i] = "@"}) = 1
    /\ Len(LocalPart(s)) >= 1
    /\ \E i \in 2..(Len(DomainPart(s)) - 1) : DomainPart(s)[i] = "."

\* C11: a non-empty email value is accepted by isValidEmail exactly when it
\* has no white space, exactly one '@' with a character before it, and after
\* the '@' a '.' with a character before it and one after it; after a submit
\* event with a non-empty email that is rejected, the email field shows
\* 'Please enter a valid email address' and no POST has been issued, and
\* with an accepted email and the other fields filled in the POST is issued.
C11_EmailFormat ==
    LET email == formValues["email"]
    IN /\ email # <<>> => (isValidEmail(email) <=> WellFormedEmail(email))
       /\ lastEvent[1] = "Submit" /\ email # <<>> /\ ~WellFormedEmail(email)
            => FieldErrorText(fieldErrors, "email") = EmailMessage /\ post = "none"
       /\ lastEvent[1] = "Submit" /\ WellFormedEmail(email) /\ ~IsBlank(formValues["name"])
            => FieldErrorText(fieldErrors, "email") = NoError /\ post = "pending"

\* A submit event with an address that has a '@' and a '.' but nothing
\* between them, all other fields filled in.
C11_Witness ==
    /\ lastEvent[1] = "Submit"
    /\ formValues["email"] = <<"a", "@", ".", "a">>
    /\ formValues["name"] = <<"a">>
    /\ FieldErrorText(fieldErrors, "email") = EmailMessage
    /\ post = "none"

\* ------------------------------------------------------------------------
\* C12
\* ------------------------------------------------------------------------
IsPrefix(a, b) == Len(a) <= Len(b) /\ SubSeq(b, 1, Len(a)) = a

\* The invocation of func that call c's timer makes when it runs on time.
TrailingInvocation(c) == [time |-> c.time + DebounceTicks, args |-> c.args, sync |-> FALSE]

RECURSIVE InvocationsOf(_, _)
\* The timers' invocations for the calls from i on that are in ends.
InvocationsOf(ends, i) ==
    IF i > Len(calls) THEN <<>>
    ELSE (IF i \in ends THEN <<TrailingInvocation(calls[i])>> ELSE <<>>)
             \o InvocationsOf(ends, i + 1)

Gap(i) == calls[i + 1].time - calls[i].time

NeverSynchronous == \A i \in 1..Len(invoked) : ~invoked[i].sync

\* The calls that end a maximal burst of calls less than wait apart.
EndsByGap == {i \in 1..Len(calls) : i = Len(calls) \/ Gap(i) >= DebounceTicks}

EndsByTimer ==
    {i \in 1..Len(calls) : IF i < Len(calls) THEN ~calls[i + 1].cleared ELSE pending = {}}

RoundTripDone ==
    /\ lastEvent[1] = "FireTimer"
    /\ lastEvent[3] = "contractProjectsView"
    /\ timers = <<>>

\* The projects grid as displayProjects renders list at first.
InitialRender(grid, list) ==
    /\ Len(grid) = 4
    /\ FirstCards(grid, list, 3)
    /\ grid[4].type = "control"
    /\ grid[4].text = "View More Projects"
    /\ grid[4].count = Len(list) - 3
    /\ ~grid[4].disabled
    /\ grid[4].onclick = "toggleProjectsView"

ProjectsAnswered == lastEvent[1] = "ProjectsFetchSettles" /\ lastEvent[2] = "ok"

BlogsAnswered == lastEvent[1] = "BlogsFetchSettles" /\ lastEvent[2] = "ok"

HasCard(grid) == \E i \in 1..Len(grid) : grid[i].type = "card"

HasError(grid) == \E i \in 1..Len(grid) : grid[i].type = "error"

\* The grid shows the first min(n,3) records of list and no error element.
ListRendered(grid, list) ==
    /\ FirstCards(grid, list, IF Len(list) < 3 THEN Len(list) ELSE 3)
    /\ ~HasError(grid)

\* Project cards are rendered only for a wrapper object and blog cards only
\* for an array; a bare array for projects and a wrapper object for blogs
\* give the grid's error element and no list.
C14_CardsOnlyForExpectedShape ==
    /\ ProjectsAnswered /\ HasCard(projectsGrid) => projectsFile.kind = "wrapper"
    /\ ProjectsAnswered /\ projectsFile.kind = "array" => HasError(projectsGrid)
    /\ BlogsAnswered /\ HasCard(blogsGrid) => blogsFile.kind = "array"
    /\ BlogsAnswered /\ blogsFile.kind = "wrapper" => HasError(blogsGrid)

\* The error state of the projects grid: the error element, then the card of
\* the built-in sample project.
ProjectsErrorState(grid) ==
    /\ Len(grid) = 2
    /\ grid[1].type = "error"
    /\ grid[2].type = "card"
    /\ grid[2].rec = SampleProject

\* The error state of the blogs grid: the error element alone.
BlogsErrorState(grid) == Len(grid) = 1 /\ grid[1].type = "error"

\* C14: on the overview page the records of the fetched projects document
\* are rendered only when it is a wrapper object whose 'projects' field is an
\* array, and blog cards only when the fetched blogs document is an array; a
\* document of another shape (a bare array for projects, a wrapper object for
\* blogs) gives that grid's error state, which for the projects grid is the
\* error element followed by the card of the built-in sample project, and
\* never a partially rendered list.
C14_ListsOnlyForExpectedShape ==
    /\ ProjectsAnswered =>
          \/ projectsFile.kind = "wrapper"
                /\ ListRendered(projectsGrid, projectsFile.list)
          \/ ProjectsErrorState(projectsGrid)
    /\ ProjectsAnswered /\ projectsFile.kind # "wrapper" => ProjectsErrorState(projectsGrid)
    /\ BlogsAnswered /\ HasCard(blogsGrid) =>
          blogsFile.kind = "array" /\ ListRendered(blogsGrid, blogsFile.list)
    /\ BlogsAnswered /\ blogsFile.kind # "array" => BlogsErrorState(blogsGrid)

\* Both documents have the other's shape and both loads have ended in their
\* error states.
C14_Witness ==
    /\ BlogsAnswered
    /\ projFetch = "none"
    /\ projectsFile.kind = "array"
    /\ blogsFile.kind = "wrapper"
    /\ ProjectsErrorState(projectsGrid)
    /\ BlogsErrorState(blogsGrid)

\* ------------------------------------------------------------------------
\* C15
\* ------------------------------------------------------------------------
\* The children of a grid without their identities.
ContentOf(grid) == [i \in 1..Len(grid) |-> [grid[i] EXCEPT !.id = 0]]

\* The cards of the first min(n,3) records of list, then the control when
\* there are more.
ListContent(list, text, onclick) ==
    [i \in 1..(IF Len(list) < 3 THEN Len(list) ELSE 3) |-> CardNode(0, list[i])]
        \o (IF Len(list) > 3 THEN <<ControlNode(0, text, Len(list) - 3, onclick)>> ELSE <<>>)

FirstThreeValid(list) == \A i \in 1..Len(list) : i <= 3 => list[i].valid

\* What the projects grid holds after a projects load with outcome net of the
\* document file.
ExpectedProjects(net, file) ==
    IF net = "ok" /\ file.kind = "wrapper" /\ FirstThreeValid(file.list)
    THEN ListContent(file.list, "View More Projects", "toggleProjectsView")
    ELSE <<ErrorNode(0, "loadProjects"), CardNode(0, SampleProject)>>

\* What the blogs grid holds after a blogs load with outcome net of file.
ExpectedBlogs(net, file) ==
    IF net = "ok" /\ file.kind = "array" /\ FirstThreeValid(file.list)
    THEN IF file.list = <<>> THEN <<NoBlogsNode(0)>>
         ELSE ListContent(file.list, "View More Blogs", "toggleBlogsView")
    ELSE <<ErrorNode(0, "loadBlogs")>>

\* Both loads have ended and no control has been used.
LoadsEnded == projFetch = "none" /\ blogFetch = "none" /\ clicks = 0

\* The content of each grid is what some outcome of its own fetch gives; an
\* empty projects grid may have got the failsafe's test card.
FinalContent ==
    /\ ContentOf(projectsGrid) \in
          {ExpectedProjects(net, projectsFile) : net \in NetOutcomes}
              \cup {<<CardNode(0, TestProject)>>}
    /\ ContentOf(projectsGrid) = <<CardNode(0, TestProject)>> =>
          ExpectedProjects("ok", projectsFile) = <<>>
    /\ ContentOf(blogsGrid) \in {ExpectedBlogs(net, blogsFile) : net \in NetOutcomes}

C15_Step ==
    /\ lastEvent'[1] = "ProjectsFetchSettles" =>
          /\ ContentOf(projectsGrid') = ExpectedProjects(lastEvent'[2], projectsFile)
          /\ blogsGrid' = blogsGrid
    /\ lastEvent'[1] = "BlogsFetchSettles" =>
          /\ ContentOf(blogsGrid') = ExpectedBlogs(lastEvent'[2], blogsFile)
          /\ projectsGrid' = projectsGrid
    /\ LoadsEnded' => FinalContent'

\* C15: in whatever order the projects fetch and the blogs fetch resolve or
\* fail, the end of a load leaves in its own grid the content that the
\* outcome of its own fetch determines and leaves the other grid as it is, so
\* once both loads have ended each grid's content is that of an outcome of
\* its own fetch.
C15_LoadsIndependent == [][C15_Step]_vars

\* The blogs load has failed first and the projects load has then shown a
\* list of four records.
C15_Witness ==
    /\ lastEvent = <<"ProjectsFetchSettles", "ok">>
    /\ blogFetch = "none"
    /\ Len(projectsFile.list) = 4
    /\ ContentOf(projectsGrid) = ExpectedProjects("ok", projectsFile)
    /\ ContentOf(blogsGrid) = ExpectedBlogs("rejected", blogsFile)
    /\ blogsFile.kind = "array"
    /\ Len(blogsFile.list) = 4

\* ------------------------------------------------------------------------
\* C16
\* ------------------------------------------------------------------------
ButtonSending == submitButton.disabled /\ submitButton.text = "Sending..."

ButtonReady == ~submitButton.disabled /\ submitButton.text = "Send Message"

\* C16: for a submission that passes validation the submit button is
\* disabled and reads 'Sending...' for as long as the request is pending, the
\* handling of every response (success, field-level errors, a non-OK response
\* without errors, a network error) leaves it enabled and reading 'Send
\* Message', and a pending request eventually ends that way.
C16_ButtonWhileSending ==
    /\ [](post = "pending" <=> ButtonSending)
    /\ [][lastEvent'[1] = "PostSettles" => post' = "none" /\ ButtonReady']_vars
    /\ (post = "pending") ~> (post = "none" /\ ButtonReady)

\* The service has answered a valid submission with field-level errors and
\* the button is enabled again.
C16_Witness ==
    /\ lastEvent[1] = "PostSettles"
    /\ lastEvent[2].kind = "errors"
    /\ lastEvent[2].errors # <<>>
    /\ formValues["email"] # <<>>
    /\ ButtonReady

\* ------------------------------------------------------------------------
\* C17
\* ------------------------------------------------------------------------
\* C17: in every state reached by hamburger clicks, nav-link clicks, clicks
\* inside and outside the navbar and key presses, the hamburger has class
\* 'active' exactly when the nav menu has it, and the body's overflow is
\* 'hidden' exactly when the menu is active.
C17_MenuConsistent ==
    /\ hamburgerActive <=> navMenuActive
    /\ bodyOverflow = "hidden" <=> navMenuActive
    /\ bodyOverflow \in {"hidden", ""}

\* A click on the hamburger has opened the closed menu.
C17_Witness ==
    /\ lastEvent[1] = "ClickHamburger"
    /\ ~lastEvent[3]
    /\ navMenuActive
    /\ hamburgerActive
    /\ bodyOverflow = "hidden"

\* ------------------------------------------------------------------------
\* C18
\* ------------------------------------------------------------------------
\* The event that has just been handled is one that closes the menu: an
\* Escape press, a click outside the navbar, a click on a nav link whose href
\* starts with '#'.
ClosingEvent(e) ==
    \/ e[1] = "KeyDown" /\ e[2] = "Escape"
    \/ e[1] = "ClickDocument" /\ ~e[2]
    \/ e[1] = "ClickNavLink" /\ e[2].t = "str" /\ e[2].s # <<>> /\ Head(e[2].s) = "#"

C18_Step ==
    /\ ClosingEvent(lastEvent') => ~navMenuActive'
    /\ ~navMenuActive /\ navMenuActive' => lastEvent'[1] = "ClickHamburger"

\* C18: an Escape press, a click outside the navbar or a click on an in-page
\* nav link leaves the menu closed, whether it was open or closed before, and
\* only a hamburger click opens the menu.
C18_OnlyHamburgerOpens == [][C18_Step]_vars

\* A click on an in-page nav link has closed the open menu.
C18_Witness ==
    /\ lastEvent[1] = "ClickNavLink"
    /\ lastEvent[2] = Str(<<"#", "a">>)
    /\ lastEvent[3]
    /\ ~navMenuActive

\* ------------------------------------------------------------------------
\* C19
\* ------------------------------------------------------------------------
\* project-detail.html has just been loaded; sessionStorage is what
\* initializeProjectDetailPage has read.
ProjectDetailOpened == lastEvent[1] \in {"OpenProjectDetail", "NavigateToProject"}

StoredProjectId == storage.selectedProjectId

\* Without an identifier: no fetch, the error container, the redirect timer.
NoIdentifierState ==
    /\ page = "project-detail"
    /\ detailFetch = "none"
    /\ detailView = View("error", NoRec, FALSE)
    /\ redirect

\* The page has loaded a projects.json that holds a list while the
\* identifier it started with is still stored.
ProjectDetailLoaded ==
    /\ lastEvent = <<"ProjectDetailFetchSettles", "ok">>
    /\ projectsFile.kind = "wrapper"
    /\ StoredProjectId.t = "str"

\* No record's id, as the string that is stored for it, is the identifier.
NoRecordHas(list, stored) == \A i \in 1..Len(list) : Str(ToJSString(list[i].id)) # stored

\* Without a stored selectedProjectId the page issues no fetch, shows the
\* error container and has its redirect pending, which leads to the overview
\* page; with an identifier that no record has, the error container is shown
\* and no project.
C19_UnknownIdShowsError ==
    /\ ProjectDetailOpened /\ StoredProjectId = Null => NoIdentifierState
    /\ lastEvent[1] = "RedirectFires" => page = "index"
    /\ redirect => NoIdentifierState
    /\ ProjectDetailLoaded /\ NoRecordHas(projectsFile.list, StoredProjectId)
          => detailView = View("error", NoRec, FALSE)

\* No record's id is strictly equal to the number parseInt reads from the
\* identifier.
NoRecordMatches(list, stored) ==
    \A i \in 1..Len(list) : ~StrictEq(list[i].id, ParseInt(stored.s))

\* C19: when session storage holds no selectedProjectId, or an empty one,
\* initialization issues no fetch, shows the error container and leaves the
\* redirect to the overview page pending; when an identifier is present but
\* no record's id is the number parseInt reads from it, the error container is
\* shown and no project content is displayed.
C19_UnmatchedIdShowsError ==
    /\ ProjectDetailOpened /\ (StoredProjectId = Null \/ StoredProjectId = Str(<<>>))
          => NoIdentifierState
    /\ lastEvent[1] = "RedirectFires" => page = "index"
    /\ redirect => NoIdentifierState
    /\ ProjectDetailLoaded /\ NoRecordMatches(projectsFile.list, StoredProjectId)
          => detailView = View("error", NoRec, FALSE)

\* The identifier 2 is stored, the loaded projects.json has no such record,
\* and the page shows the error container.
C19_Witness ==
    /\ ProjectDetailLoaded
    /\ selected = Null
    /\ StoredProjectId = Str(<<"2">>)
    /\ NoRecordHas(projectsFile.list, StoredProjectId)
    /\ detailView = View("error", NoRec, FALSE)
    /\ ~loading

\* ------------------------------------------------------------------------
\* C20
\* ------------------------------------------------------------------------
\* A detail page's fetch has just settled.
DetailFetchSettled ==
    lastEvent[1] \in {"ProjectDetailFetchSettles", "BlogDetailFetchSettles"}

\* C20: a detail page shows its loading indicator only while its fetch is
\* pending: it is gone when the fetch has settled, whatever the page then
\* shows (the record, an error after a failed fetch, an unknown id or a
\* rendering exception), it is gone at once when the id is missing, and
\* every run of the initialization eventually leaves none.
C20_LoadingEnds ==
    /\ [](loading => page \in {"project-detail", "blog-detail"} /\ detailFetch = "pending")
    /\ [](DetailFetchSettled => ~loading)
    /\ loading ~> ~loading

\* The project detail page has found its record, displayProjectDetails has
\* thrown on it, and the error container is shown without the overlay.
C20_Witness ==
    /\ lastEvent = <<"ProjectDetailFetchSettles", "ok">>
    /\ projectsFile.kind = "wrapper"
    /\ Find(projectsFile.list, detailId).found
    /\ ~Find(projectsFile.list, detailId).rec.full
    /\ detailView.kind = "error"
    /\ ~loading

\* ------------------------------------------------------------------------
\* C21
\* ------------------------------------------------------------------------
\* The blog detail page has shown the blog the URL names.
RelatedDone == lastEvent[1] = "BlogDetailFetchSettles" /\ detailView.kind = "blog"

KeywordSet(rec) == {rec.keywords.list[i] : i \in 1..Len(rec.keywords.list)}

\* The positions in blogs.json of the records other than the current blog
\* that have its category or one of its keywords.
Qualifying(list, current) ==
    {j \in 1..Len(list) :
        /\ list[j].id # current.id
        /\ \/ list[j].category = current.category
           \/ KeywordSet(list[j]) \cap KeywordSet(current) # {}}

\* The i-th smallest member of a set of positions.
NthOf(Q, i) == CHOOSE j \in Q : Cardinality({k \in Q : k < j}) = i - 1

\* C21: once the blog detail page has shown its blog, the related grid holds
\* at most 3 records, none with the current blog's id, each sharing the
\* current blog's category or a keyword with it; they are the first 3
\* qualifying records of blogs.json in data order; and the related section
\* is hidden exactly when no record qualifies.  A page that shows no blog lists
\* no related record.
C21_RelatedBlogs ==
    LET grid == relatedSection.grid
        Q == Qualifying(blogsFile.list, detailView.rec)
    IN /\ RelatedDone =>
            /\ Len(grid) <= 3
            /\ \A i \in 1..Len(grid) : grid[i].id # detailView.rec.id
            /\ \A i \in 1..Len(grid) :
                   \/ grid[i].category = detailView.rec.category
                   \/ KeywordSet(grid[i]) \cap KeywordSet(detailView.rec) # {}
            /\ Len(grid) = Min(3, Cardinality(Q))
            /\ \A i \in 1..Len(grid) : grid[i] = blogsFile.list[NthOf(Q, i)]
            /\ relatedSection.hidden <=> Q = {}
       /\ detailView.kind # "blog" => grid = <<>>

\* The third record is shown; four others qualify, one of them by a keyword
\* only, and the grid holds the first three of them.
C21_Witness ==
    /\ RelatedDone
    /\ detailView.rec.id = BlogIdOf(3)
    /\ Cardinality(Qualifying(blogsFile.list, detailView.rec)) = 4
    /\ Len(relatedSection.grid) = 3
    /\ \E i \in 1..3 : relatedSection.grid[i].category # detailView.rec.category
    /\ relatedSection.grid[3].id = BlogIdOf(4)
    /\ ~relatedSection.hidden

\* ------------------------------------------------------------------------
\* C22
\* ------------------------------------------------------------------------
\* What a field shows after it lost the focus holding value: the required
\* message for an empty or white-space value, the email message for any other
\* value of the email field that is no well-formed address, else nothing.
AfterBlur(f, value) ==
    IF EmptyOrSpaces(value)
    THEN [elements |-> <<RequiredMessage>>, error |-> TRUE]
    ELSE IF f = "email" /\ ~WellFormedEmail(Trim(value))
         THEN [elements |-> <<EmailMessage>>, error |-> TRUE]
         ELSE NoFieldError

\* A step of the form: an input event leaves its field without error element
\* and without error styling; a blur leaves its field with what its value
\* alone calls for, whatever it showed before; neither touches another field;
\* and any handler that changes what a field shows leaves it exactly one
\* error element, or none.
C22_Step ==
    /\ lastEvent'[1] \in {"Input", "Blur"} =>
           /\ lastEvent'[1] = "Input" => fieldErrors'[lastEvent'[2]] = NoFieldError
           /\ lastEvent'[1] = "Blur" =>
                  fieldErrors'[lastEvent'[2]] = AfterBlur(lastEvent'[2], formValues[lastEvent'[2]])
           /\ \A g \in FormFields \ {lastEvent'[2]} : fieldErrors'[g] = fieldErrors[g]
    /\ \A f \in FormFields :
           fieldErrors'[f] # fieldErrors[f] =>
               \/ fieldErrors'[f] = NoFieldError
               \/ Len(fieldErrors'[f].elements) = 1 /\ fieldErrors'[f].error

\* C22: each form field has at most one error message element at any time;
\* showing an error for a field replaces the one it had; a blur clears the
\* field's error and then validates it (required, then email format); an
\* input event removes the field's error message and its error styling.
C22_FieldErrorDisplay ==
    /\ [](\A f \in FormFields : Len(fieldErrors[f].elements) <= 1)
    /\ [][C22_Step]_vars

\* The email field, holding an address without '@', has lost the focus and
\* shows its one error element with the email message.
C22_Witness ==
    /\ lastEvent = <<"Blur", "email">>
    /\ formValues["email"] = <<"a">>
    /\ fieldErrors["email"] = [elements |-> <<EmailMessage>>, error |-> TRUE]
    /\ \A f \in FormFields : Len(fieldErrors[f].elements) <= 1

====
